---- MODULE Spec2Model ----
(***************************************************************************)
(* A model of the peekguard masking service: the placeholder registry      *)
(* (PlaceholderManager), the two masking passes (AddressMasker and         *)
(* PresidioMasker), the request pipeline mask_sentence and the inverse     *)
(* _unmask_sentence.                                                       *)
(*                                                                         *)
(* A Python str is a sequence of one-character strings, so that slicing,   *)
(* replacing, formatting a counter into a placeholder and parsing it back  *)
(* are computed character by character, as the code computes them.         *)
(* A Python dict is a sequence of <<key, value>> pairs with distinct keys, *)
(* in insertion order.                                                     *)
(***************************************************************************)
EXTENDS Integers, Sequences, FiniteSets, TLC

VARIABLES
    pc,                 \* position of the request / of the caller
    sentence,           \* mask_sentence argument: the text
    analyzer,           \* mask_sentence argument: TRUE iff an engine is given
    presidio_entities,  \* mask_sentence argument (None is the empty list)
    existing_mappings,  \* mask_sentence argument (None is the empty dict)
    pm,                 \* << >>, or <<m>> with m the PlaceholderManager built
    effective_entities, \* local of mask_sentence
    current_text,       \* local of mask_sentence
    address_spans,      \* local of mask_sentence
    response,           \* what the caller gets back
    pyap_calls,         \* history: the texts handed to pyap.parse
    analyze_calls,      \* history: [text, entities] handed to analyzer.analyze
    addr_log,           \* history: the completed runs of AddressMasker.mask
    gen_log,            \* history: the completed runs of PresidioMasker.mask
    calls,              \* history: <<entity, value, token>> of placeholder_for calls
    unmasked,           \* << >>, or <<t>> with t what _unmask_sentence returned
    sem_value,          \* value of the named semaphore, -1 while it does not exist
    worker,             \* per worker process: lifespan position, locals, app.state
    shared_entities,    \* the module-level list PRESIDIO_ENTITIES, as it is now
    mask_requests       \* per concurrent request: arguments, locals, response

vars == << pc, sentence, analyzer, presidio_entities,
           existing_mappings, pm, effective_entities, current_text,
           address_spans, response, pyap_calls, analyze_calls, addr_log,
           gen_log, calls, unmasked, sem_value, worker,
                    shared_entities, mask_requests >>

-----------------------------------------------------------------------------
(* Bounds of the model. *)

\* seed entries of a registry driven directly (RegistrySpec)
MaxSeed == 2
\* placeholder_for calls on a registry driven directly (RegistrySpec)
MaxCalls == 3
\* offsets a detector reports lie within MaxCut characters of an end of the text
MaxCut == 1
\* matches one detector call returns within a request (Spec)
MaxMatches == 1
\* addresses pyap returns to a pass called directly (PassSpec)
MaxAddr == 2
\* results the analyzer returns to a pass called directly (PassSpec)
MaxRes == 2
\* length of the entity list of a request
MaxEntities == 2

\* worker processes of one machine (LifecycleSpec)
MaxWorkers == 3

\* /mask requests a worker answers (LifecycleSpec)
MaxRequests == 1

Workers == 1..MaxWorkers

\* a worker process before its lifespan starts: nothing set on app.state,
\* which getattr reads as None and False
IdleWorker ==
    [pc |-> "START",
     sem |-> FALSE,
     holds |-> FALSE,
     result |-> [analyzer |-> FALSE, successful |-> FALSE],
     analyzer_engine |-> FALSE,
     service_initialized_successfully |-> FALSE,
     requests |-> << >>]

NoWorkers == [w \in Workers |-> IdleWorker]


-----------------------------------------------------------------------------
(* Python values. *)

\* all sequences over S of length at most n
SeqsUpTo(S, n) == UNION { [1..k -> S] : k \in 0..n }

\* the elements of a list
ListSet(lst) == { lst[i] : i \in 1..Len(lst) }

Max(S) == CHOOSE x \in S : \A y \in S : y <= x
Min(S) == CHOOSE x \in S : \A y \in S : x <= y

\* Python's clamping of a slice index i against a string of length n.
SliceIndex(i, n) ==
    IF i < 0 THEN (IF i + n < 0 THEN 0 ELSE i + n)
    ELSE (IF i > n THEN n ELSE i)

\* s[i:j], 0-based, half-open, with Python's negative and clamped indices.
Slice(s, i, j) ==
    LET a == SliceIndex(i, Len(s))
        b == SliceIndex(j, Len(s))
    IN  IF a >= b THEN << >> ELSE SubSeq(s, a + 1, b)

\* s[:i] and s[i:]
SliceTo(s, i) == Slice(s, 0, i)
SliceFrom(s, i) == Slice(s, i, Len(s))

\* whether pat occurs in s at 0-based offset i
OccursAt(s, pat, i) ==
    /\ i >= 0
    /\ i + Len(pat) <= Len(s)
    /\ \A k \in 1..Len(pat) : s[i + k] = pat[k]

\* `pat in s` for str
Contains(s, pat) == \E i \in 0..Len(s) : OccursAt(s, pat, i)

UpperChars ==
    { "A","B","C","D","E","F","G","H","I","J","K","L","M",
      "N","O","P","Q","R","S","T","U","V","W","X","Y","Z" }

Digits == << "0","1","2","3","4","5","6","7","8","9" >>

DigitChars == { Digits[i] : i \in 1..10 }

\* str(n) for n >= 0
RECURSIVE IntToStr(_)
IntToStr(n) ==
    IF n < 10 THEN << Digits[n + 1] >>
    ELSE IntToStr(n \div 10) \o << Digits[(n % 10) + 1] >>

DigitValue(c) == CHOOSE d \in 0..9 : Digits[d + 1] = c

\* int(s) for a non-empty string of digits
RECURSIVE StrToInt(_)
StrToInt(s) ==
    IF Len(s) = 0 THEN 0
    ELSE 10 * StrToInt(SubSeq(s, 1, Len(s) - 1)) + DigitValue(s[Len(s)])

-----------------------------------------------------------------------------
(* dict as a sequence of <<key, value>> pairs. *)

DictKeys(d) == { d[i][1] : i \in 1..Len(d) }

DictGet(d, k) == d[CHOOSE i \in 1..Len(d) : d[i][1] = k][2]

\* d[k] = v: an existing key keeps its place, a new key is appended
DictSet(d, k, v) ==
    IF k \in DictKeys(d)
    THEN [i \in 1..Len(d) |-> IF d[i][1] = k THEN <<k, v>> ELSE d[i]]
    ELSE Append(d, <<k, v>>)

\* the dict as a function, for comparisons that ignore insertion order
DictFun(d) == [k \in DictKeys(d) |-> DictGet(d, k)]

IsDict(d) == \A i, j \in 1..Len(d) : d[i][1] = d[j][1] => i = j

-----------------------------------------------------------------------------
(* utils/entities.py *)

PERSON == <<"P","E","R","S","O","N">>
EMAIL_ADDRESS == <<"E","M","A","I","L","_","A","D","D","R","E","S","S">>
CREDIT_CARD == <<"C","R","E","D","I","T","_","C","A","R","D">>
PHONE_NUMBER == <<"P","H","O","N","E","_","N","U","M","B","E","R">>
US_SSN == <<"U","S","_","S","S","N">>
IP_ADDRESS == <<"I","P","_","A","D","D","R","E","S","S">>
URL == <<"U","R","L">>
LOCATION == <<"L","O","C","A","T","I","O","N">>
GOVERNMENT_ID == <<"G","O","V","E","R","N","M","E","N","T","_","I","D">>
FINANCIAL_ID == <<"F","I","N","A","N","C","I","A","L","_","I","D">>
TECHNICAL_ID == <<"T","E","C","H","N","I","C","A","L","_","I","D">>
MEDICAL_ID == <<"M","E","D","I","C","A","L","_","I","D">>
SECURITY_DATA == <<"S","E","C","U","R","I","T","Y","_","D","A","T","A">>
VEHICLE_ID == <<"V","E","H","I","C","L","E","_","I","D">>
DEMOGRAPHIC_DATA == <<"D","E","M","O","G","R","A","P","H","I","C","_","D","A","T","A">>

PRESIDIO_ENTITIES ==
    << PERSON, EMAIL_ADDRESS, CREDIT_CARD, PHONE_NUMBER, US_SSN, IP_ADDRESS,
       URL, LOCATION, GOVERNMENT_ID, FINANCIAL_ID, TECHNICAL_ID, MEDICAL_ID,
       SECURITY_DATA, VEHICLE_ID, DEMOGRAPHIC_DATA >>

\* `x in lst` for a list
InList(x, lst) == \E i \in 1..Len(lst) : lst[i] = x

\* Google Cloud DLP info type names that are not entity names as well
PERSON_NAME == <<"P","E","R","S","O","N","_","N","A","M","E">>
CREDIT_CARD_DATA == <<"C","R","E","D","I","T","_","C","A","R","D","_","D","A","T","A">>
GEOGRAPHIC_DATA == <<"G","E","O","G","R","A","P","H","I","C","_","D","A","T","A">>
PASSPORT == <<"P","A","S","S","P","O","R","T">>
DRIVERS_LICENSE_NUMBER == <<"D","R","I","V","E","R","S","_","L","I","C","E","N","S","E","_","N","U","M","B","E","R">>
MAC_ADDRESS == <<"M","A","C","_","A","D","D","R","E","S","S">>
MEDICAL_DATA == <<"M","E","D","I","C","A","L","_","D","A","T","A">>
VEHICLE_IDENTIFICATION_NUMBER == <<"V","E","H","I","C","L","E","_","I","D","E","N","T","I","F","I","C","A","T","I","O","N","_","N","U","M","B","E","R">>

\* PRESIDIO_TO_DLP, in the order of the dict literal
PRESIDIO_TO_DLP ==
    << << PERSON, << PERSON_NAME >> >>,
       << EMAIL_ADDRESS, << EMAIL_ADDRESS >> >>,
       << CREDIT_CARD, << CREDIT_CARD_DATA >> >>,
       << PHONE_NUMBER, << PHONE_NUMBER >> >>,
       << US_SSN, << GOVERNMENT_ID >> >>,
       << IP_ADDRESS, << TECHNICAL_ID >> >>,
       << URL, << URL >> >>,
       << LOCATION, << GEOGRAPHIC_DATA >> >>,
       << GOVERNMENT_ID, << GOVERNMENT_ID, PASSPORT, DRIVERS_LICENSE_NUMBER >> >>,
       << FINANCIAL_ID, << FINANCIAL_ID >> >>,
       << TECHNICAL_ID, << TECHNICAL_ID, MAC_ADDRESS >> >>,
       << MEDICAL_ID, << MEDICAL_ID, MEDICAL_DATA >> >>,
       << SECURITY_DATA, << SECURITY_DATA >> >>,
       << VEHICLE_ID, << VEHICLE_IDENTIFICATION_NUMBER >> >>,
       << DEMOGRAPHIC_DATA, << DEMOGRAPHIC_DATA >> >> >>

\* the comprehension {dlp: presidio for presidio, dlps in ... for dlp in dlps}
\* from entry i, info type j on: a later pair overwrites an earlier one
RECURSIVE ReverseFrom(_, _, _)
ReverseFrom(acc, i, j) ==
    IF i > Len(PRESIDIO_TO_DLP) THEN acc
    ELSE IF j > Len(PRESIDIO_TO_DLP[i][2]) THEN ReverseFrom(acc, i + 1, 1)
    ELSE ReverseFrom(DictSet(acc, PRESIDIO_TO_DLP[i][2][j], PRESIDIO_TO_DLP[i][1]),
                     i, j + 1)

\* DLP_TO_PRESIDIO
DLP_TO_PRESIDIO == ReverseFrom(<< >>, 1, 1)

\* PRESIDIO_TO_DLP.get(entity, [])
DlpTypesOf(entity) ==
    IF entity \in DictKeys(PRESIDIO_TO_DLP) THEN DictGet(PRESIDIO_TO_DLP, entity)
    ELSE << >>

-----------------------------------------------------------------------------
(* PlaceholderManager (api/masking/handler.py) *)

\* f"<{entity}_{n}>"
FormatPlaceholder(entity, n) ==
    <<"<">> \o entity \o <<"_">> \o IntToStr(n) \o <<">">>

\* the 1-based index of the last "_" of s, 0 if there is none
LastUnderscore(s) ==
    LET I == { i \in 1..Len(s) : s[i] = "_" }
    IN  IF I = {} THEN 0 ELSE Max(I)

\* PLACEHOLDER_REGEX = r"<([A-Z0-9_]+)_(\d+)>" under re.fullmatch.  The second
\* group holds no "_", so the "_" before it is the last one of the string;
\* the greedy first group is everything between "<" and that "_".
PlaceholderMatch(placeholder) ==
    LET n == Len(placeholder)
        inner == SubSeq(placeholder, 2, n - 1)
        u == LastUnderscore(inner)
        ok == /\ n >= 5
              /\ placeholder[1] = "<"
              /\ placeholder[n] = ">"
              /\ u >= 2
              /\ u < Len(inner)
              /\ \A i \in 1..(u - 1) :
                    inner[i] \in UpperChars \cup DigitChars \cup {"_"}
              /\ \A i \in (u + 1)..Len(inner) : inner[i] \in DigitChars
    IN  IF ok
        THEN [match |-> TRUE,
              entity |-> SubSeq(inner, 1, u - 1),
              number |-> StrToInt(SubSeq(inner, u + 1, Len(inner)))]
        ELSE [match |-> FALSE, entity |-> << >>, number |-> 0]

\* defaultdict(int)[entity]
Counter(counters, entity) ==
    IF entity \in DOMAIN counters THEN counters[entity] ELSE 0

\* the loop body with a lax pattern: any "<..._...>" key is taken, a suffix
\* that is no number counting as 0
InitialiseEntryLax(m, placeholder, original) ==
    LET n == Len(placeholder)
        inner == SubSeq(placeholder, 2, n - 1)
        u == LastUnderscore(inner)
        ok == n >= 5 /\ placeholder[1] = "<" /\ placeholder[n] = ">"
                /\ u >= 2 /\ u < Len(inner)
    IN  IF ~ok THEN m
        ELSE LET entity == SubSeq(inner, 1, u - 1)
                 suffix == SubSeq(inner, u + 1, Len(inner))
                 number == IF \A i \in 1..Len(suffix) : suffix[i] \in DigitChars
                           THEN StrToInt(suffix) ELSE 0
                 old == Counter(m.entity_counters, entity)
             IN  [m EXCEPT
                    !.entity_counters =
                        (entity :> (IF old >= number THEN old ELSE number)) @@ @,
                    !.pii_to_placeholder =
                        (<<entity, original>> :> placeholder) @@ @]

\* the loop body assigning the parsed number instead of the maximum
InitialiseEntryLast(m, placeholder, original) ==
    LET match == PlaceholderMatch(placeholder)
    IN  IF ~match.match THEN m
        ELSE [m EXCEPT
                !.entity_counters = (match.entity :> match.number) @@ @,
                !.pii_to_placeholder =
                    (<<match.entity, original>> :> placeholder) @@ @]

\* one iteration of the loop of _initialise_from_existing
InitialiseEntry(m, placeholder, original) ==
    LET match == PlaceholderMatch(placeholder)
    IN  IF ~match.match THEN m
        ELSE LET entity == match.entity
                 number == match.number
                 old == Counter(m.entity_counters, entity)
             IN  [m EXCEPT
                    !.entity_counters =
                        (entity :> (IF old >= number THEN old ELSE number)) @@ @,
                    !.pii_to_placeholder =
                        (<<entity, original>> :> placeholder) @@ @]

RECURSIVE InitialiseFrom(_, _)
InitialiseFrom(m, i) ==
    IF i > Len(m.placeholder_to_pii) THEN m
    ELSE InitialiseFrom(
            InitialiseEntry(m, m.placeholder_to_pii[i][1], m.placeholder_to_pii[i][2]),
            i + 1)

\* PlaceholderManager(existing)
PlaceholderManager(existing) ==
    InitialiseFrom(
        [placeholder_to_pii |-> existing,
         pii_to_placeholder |-> << >>,
         entity_counters |-> << >>],
        1)

\* placeholder_for without the lookup of the reverse index
MintAlways(m, entity, value) ==
    LET n == Counter(m.entity_counters, entity) + 1
        placeholder == FormatPlaceholder(entity, n)
    IN  [pm |-> [m EXCEPT
                    !.entity_counters = (entity :> n) @@ @,
                    !.pii_to_placeholder = (<<entity, value>> :> placeholder) @@ @,
                    !.placeholder_to_pii = DictSet(@, placeholder, value)],
         placeholder |-> placeholder]

\* placeholder_for without the entry in placeholder_to_pii
ForgetsMapping(m, entity, value) ==
    LET key == <<entity, value>>
    IN  IF key \in DOMAIN m.pii_to_placeholder
        THEN [pm |-> m, placeholder |-> m.pii_to_placeholder[key]]
        ELSE LET n == Counter(m.entity_counters, entity) + 1
                 placeholder == FormatPlaceholder(entity, n)
             IN  [pm |-> [m EXCEPT
                            !.entity_counters = (entity :> n) @@ @,
                            !.pii_to_placeholder = (key :> placeholder) @@ @],
                  placeholder |-> placeholder]

\* placeholder_for with the counter read but not advanced
MintsWithoutCounting(m, entity, value) ==
    LET key == <<entity, value>>
    IN  IF key \in DOMAIN m.pii_to_placeholder
        THEN [pm |-> m, placeholder |-> m.pii_to_placeholder[key]]
        ELSE LET n == Counter(m.entity_counters, entity) + 1
                 placeholder == FormatPlaceholder(entity, n)
             IN  [pm |-> [m EXCEPT
                            !.pii_to_placeholder = (key :> placeholder) @@ @,
                            !.placeholder_to_pii = DictSet(@, placeholder, value)],
                  placeholder |-> placeholder]

\* pm.placeholder_for(entity, value): the manager after the call and the token
placeholder_for(m, entity, value) ==
    LET key == <<entity, value>>
    IN  IF key \in DOMAIN m.pii_to_placeholder
        THEN [pm |-> m, placeholder |-> m.pii_to_placeholder[key]]
        ELSE LET n == Counter(m.entity_counters, entity) + 1
                 placeholder == FormatPlaceholder(entity, n)
             IN  [pm |-> [m EXCEPT
                            !.entity_counters = (entity :> n) @@ @,
                            !.pii_to_placeholder = (key :> placeholder) @@ @,
                            !.placeholder_to_pii = DictSet(@, placeholder, value)],
                  placeholder |-> placeholder]

\* pm.mappings
Mappings(m) == m.placeholder_to_pii

-----------------------------------------------------------------------------
(* Sorting, as list.sort and sorted do it: stable. *)

\* tuples of integers of one length, compared as Python compares tuples
RECURSIVE TupleLess(_, _)
TupleLess(a, b) ==
    IF Len(a) = 0 THEN FALSE
    ELSE IF a[1] # b[1] THEN a[1] < b[1]
    ELSE TupleLess(Tail(a), Tail(b))

\* seq sorted by keys (keys[i] is the key of seq[i]), equal keys in their order
StableSort(seq, keys) ==
    LET n == Len(seq)
        rank(i) == Cardinality({ j \in 1..n :
                        \/ TupleLess(keys[j], keys[i])
                        \/ (keys[j] = keys[i] /\ j < i) })
    IN  [p \in 1..n |-> seq[CHOOSE i \in 1..n : rank(i) = p - 1]]

-----------------------------------------------------------------------------
(* AddressMasker.mask (api/masking/handler.py) *)

\* the first loop: one placeholder per address, in the order pyap gives them
RECURSIVE AddressReplacements(_, _, _, _)
AddressReplacements(m, addrs, i, acc) ==
    IF i > Len(addrs) THEN [pm |-> m, replacements |-> acc]
    ELSE LET r == placeholder_for(m, LOCATION, addrs[i].full_address)
         IN  AddressReplacements(
                r.pm, addrs, i + 1,
                Append(acc, [start |-> addrs[i].match_start,
                             end |-> addrs[i].match_end,
                             placeholder |-> r.placeholder]))

\* replacements.sort(key=lambda r: r["start"])
SortReplacements(replacements) ==
    StableSort(replacements,
               [i \in 1..Len(replacements) |-> << replacements[i].start >>])

\* the second loop: splice left to right while adjusting offsets
RECURSIVE AddressSplice(_, _, _, _, _)
AddressSplice(replacements, i, offset, masked, spans) ==
    IF i > Len(replacements) THEN [masked |-> masked, spans |-> spans]
    ELSE LET rep == replacements[i]
             start == rep.start + offset
             end == rep.end + offset
         IN  AddressSplice(
                replacements, i + 1,
                offset + Len(rep.placeholder) - (rep.end - rep.start),
                SliceTo(masked, start) \o rep.placeholder \o SliceFrom(masked, end),
                Append(spans, <<start, start + Len(rep.placeholder)>>))

\* AddressMasker(m).mask(text) when pyap.parse(text, country="US") gives addrs
AddressMaskerMask(m, text, addrs) ==
    LET first == AddressReplacements(m, addrs, 1, << >>)
        replacements == SortReplacements(first.replacements)
        second == AddressSplice(replacements, 1, 0, text, << >>)
    IN  [pm |-> first.pm,
         masked |-> second.masked,
         spans |-> second.spans,
         text |-> text,
         addrs |-> addrs,
         replacements |-> replacements]

-----------------------------------------------------------------------------
(* PresidioMasker.mask (api/masking/handler.py) *)

\* MIN_THRESHOLD = 0.6; scores are counted in tenths
MIN_THRESHOLD == 6

\* _overlaps_any(s, e, spans)
OverlapsAny(s, e, spans) ==
    \E i \in 1..Len(spans) :
        (IF s >= spans[i][1] THEN s ELSE spans[i][1])
            < (IF e <= spans[i][2] THEN e ELSE spans[i][2])

\* the sort by start offset alone
SortByStart(results) ==
    StableSort(results, [i \in 1..Len(results) |-> << results[i].start >>])

\* results.sort(key=lambda r: (r.start, -(r.end - r.start), -r.score))
SortResults(results) ==
    StableSort(results,
               [i \in 1..Len(results) |->
                    << results[i].start,
                       -(results[i].end - results[i].start),
                       -results[i].score >>])

\* the guard without the test for an existing placeholder
KeepsPlaceholders(m, text, res) == FALSE

\* text[res.start : res.end] in self._pm.mappings.keys()
IsPlaceholder(m, text, res) ==
    Slice(text, res.start, res.end) \in DictKeys(Mappings(m))

\* the selection loop
RECURSIVE Choose(_, _, _, _, _, _, _)
Choose(m, text, exclude_spans, results, i, last_end, chosen) ==
    IF i > Len(results) THEN chosen
    ELSE LET res == results[i]
         IN  IF OverlapsAny(res.start, res.end, exclude_spans)
             THEN Choose(m, text, exclude_spans, results, i + 1, last_end, chosen)
             ELSE IF IsPlaceholder(m, text, res)
             THEN Choose(m, text, exclude_spans, results, i + 1, last_end, chosen)
             ELSE IF res.start >= last_end
             THEN Choose(m, text, exclude_spans, results, i + 1, res.end,
                         Append(chosen, res))
             ELSE Choose(m, text, exclude_spans, results, i + 1, last_end, chosen)

\* the replacement loop; applied records what was spliced, in text's offsets
RECURSIVE PresidioSplice(_, _, _, _, _, _)
PresidioSplice(m, chosen, i, offset, masked, applied) ==
    IF i > Len(chosen) THEN [pm |-> m, masked |-> masked, applied |-> applied]
    ELSE LET res == chosen[i]
             entity == res.entity_type
             s == res.start + offset
             e == res.end + offset
             original_val == Slice(masked, s, e)
             r == placeholder_for(m, entity, original_val)
         IN  PresidioSplice(
                r.pm, chosen, i + 1,
                offset + Len(r.placeholder) - Len(original_val),
                SliceTo(masked, s) \o r.placeholder \o SliceFrom(masked, e),
                Append(applied, [start |-> res.start,
                                 end |-> res.end,
                                 entity_type |-> entity,
                                 value |-> original_val,
                                 placeholder |-> r.placeholder]))

\* PresidioMasker(analyzer, m, language).mask(text, entities, exclude_spans)
\* when analyzer.analyze gives results; entities is not empty
PresidioMaskerMask(m, text, entities, exclude_spans, results) ==
    LET sorted == SortResults(results)
        chosen == Choose(m, text, exclude_spans, sorted, 1, -1, << >>)
        out == PresidioSplice(m, chosen, 1, 0, text, << >>)
    IN  [pm |-> out.pm,
         masked |-> out.masked,
         text |-> text,
         entities |-> entities,
         exclude_spans |-> exclude_spans,
         results |-> results,
         applied |-> out.applied]

-----------------------------------------------------------------------------
(* _unmask_sentence (api/unmasking/router.py) *)

\* s.replace(old, new) for a non-empty old, from 0-based offset i on
RECURSIVE ReplaceFrom(_, _, _, _)
ReplaceFrom(s, old, new, i) ==
    IF i >= Len(s) THEN << >>
    ELSE IF OccursAt(s, old, i)
         THEN new \o ReplaceFrom(s, old, new, i + Len(old))
         ELSE << s[i + 1] >> \o ReplaceFrom(s, old, new, i + 1)

\* s.replace("", new): new before every character and at the end
RECURSIVE Interleave(_, _, _)
Interleave(s, new, i) ==
    IF i > Len(s) THEN new
    ELSE new \o << s[i] >> \o Interleave(s, new, i + 1)

\* s.replace(old, new)
Replace(s, old, new) ==
    IF Len(old) = 0 THEN Interleave(s, new, 1) ELSE ReplaceFrom(s, old, new, 0)

\* sorted(mappings, key=len, reverse=True): the keys, longest first
KeysByLength(mappings) ==
    LET keys == [i \in 1..Len(mappings) |-> mappings[i][1]]
    IN  StableSort(keys, [i \in 1..Len(keys) |-> << -Len(keys[i]) >>])

RECURSIVE UnmaskLoop(_, _, _, _)
UnmaskLoop(result, mappings, keys, i) ==
    IF i > Len(keys) THEN result
    ELSE UnmaskLoop(Replace(result, keys[i], DictGet(mappings, keys[i])),
                    mappings, keys, i + 1)

\* _unmask_sentence(masked_data, mappings)
UnmaskSentence(masked_data, mappings) ==
    IF Len(masked_data) = 0 \/ Len(mappings) = 0 THEN masked_data
    ELSE UnmaskLoop(masked_data, mappings, KeysByLength(mappings), 1)

-----------------------------------------------------------------------------
(* The detectors: pyap.parse and analyzer.analyze are libraries outside the  *)
(* repository.  What they return is an input of the model: any list of       *)
(* matches with 0 <= start < end <= len(text).                               *)

Cuts(text) == { i \in 0..Len(text) : i <= MaxCut \/ Len(text) - i <= MaxCut }

Spans(text) == { sp \in Cuts(text) \X Cuts(text) : sp[1] < sp[2] }

StripChars == { " ", ",", ";", ":" }

\* s.strip(" ,;:")
RECURSIVE Strip(_)
Strip(s) ==
    IF Len(s) = 0 THEN s
    ELSE IF s[1] \in StripChars THEN Strip(Tail(s))
    ELSE IF s[Len(s)] \in StripChars THEN Strip(SubSeq(s, 1, Len(s) - 1))
    ELSE s

\* addr.full_address of a match at [s, e): the matched text, as pyap cleans it
FullAddresses(text, s, e) == { Slice(text, s, e), Strip(Slice(text, s, e)) }

AddrMatches(text) ==
    UNION { { [match_start |-> sp[1], match_end |-> sp[2], full_address |-> v] :
                v \in FullAddresses(text, sp[1], sp[2]) } : sp \in Spans(text) }

\* pyap.parse(text, country="US"): the lists it may return, at most n long
PyapParse(text, n) == SeqsUpTo(AddrMatches(text), n)

\* scores of the results, in tenths; analyze drops those under score_threshold
Scores == { s \in {6, 9} : s >= MIN_THRESHOLD }

\* analyzer.analyze(text=text, language=..., entities=entities,
\* score_threshold=MIN_THRESHOLD): the lists it may return, at most n long
Analyze(text, entities, n) ==
    SeqsUpTo({ [entity_type |-> t, start |-> sp[1], end |-> sp[2], score |-> sc] :
                 t \in ListSet(entities), sp \in Spans(text), sc \in Scores }, n)

-----------------------------------------------------------------------------
(* mask_sentence (api/masking/handler.py), called by mask_pii_data           *)
(* (api/masking/router.py)                                                   *)

NoResponse == [status |-> 0, masked_data |-> << >>, mappings |-> << >>, detail |-> << >>]

\* the validation looking at the first requested entity only
InvalidFirst(entities) ==
    SelectSeq(SubSeq(entities, 1, 1), LAMBDA entity : ~InList(entity, PRESIDIO_ENTITIES))

\* [entity for entity in presidio_entities if entity not in PRESIDIO_ENTITIES]
InvalidEntities(entities) ==
    SelectSeq(entities, LAMBDA entity : ~InList(entity, PRESIDIO_ENTITIES))

\* lst.remove(x): lst without the first x
Remove(lst, x) ==
    LET i == Min({ j \in 1..Len(lst) : lst[j] = x })
    IN  SubSeq(lst, 1, i - 1) \o SubSeq(lst, i + 1, Len(lst))

\* raise HTTPException(status_code=422, ...) on an entity outside the enumeration
Reject ==
    /\ pc = "VALIDATING"
    /\ Len(presidio_entities) > 0
    /\ InvalidEntities(presidio_entities) # << >>
    /\ response' = [NoResponse EXCEPT !.status = 422,
                                      !.detail = InvalidEntities(presidio_entities)]
    /\ pc' = "REJECTED"
    /\ UNCHANGED << sentence, analyzer, presidio_entities, existing_mappings, pm,
                    effective_entities, current_text, address_spans, pyap_calls,
                    analyze_calls, addr_log, gen_log, calls, unmasked,
                    sem_value, worker,
                    shared_entities, mask_requests >>

\* the empty sentence answered with the seed echoed back
ReturnEmptyEchoesSeed ==
    /\ pc = "VALIDATING"
    /\ ~(Len(presidio_entities) > 0 /\ InvalidEntities(presidio_entities) # << >>)
    /\ Len(sentence) = 0
    /\ response' = [NoResponse EXCEPT !.status = 200, !.mappings = existing_mappings]
    /\ pc' = "DONE"
    /\ UNCHANGED << sentence, analyzer, presidio_entities, existing_mappings, pm,
                    effective_entities, current_text, address_spans, pyap_calls,
                    analyze_calls, addr_log, gen_log, calls, unmasked,
                    sem_value, worker,
                    shared_entities, mask_requests >>

\* if not sentence: return "", {}
ReturnEmpty ==
    /\ pc = "VALIDATING"
    /\ ~(Len(presidio_entities) > 0 /\ InvalidEntities(presidio_entities) # << >>)
    /\ Len(sentence) = 0
    /\ response' = [NoResponse EXCEPT !.status = 200]
    /\ pc' = "DONE"
    /\ UNCHANGED << sentence, analyzer, presidio_entities, existing_mappings, pm,
                    effective_entities, current_text, address_spans, pyap_calls,
                    analyze_calls, addr_log, gen_log, calls, unmasked,
                    sem_value, worker,
                    shared_entities, mask_requests >>

\* 1. Setup helpers
Setup ==
    /\ pc = "VALIDATING"
    /\ ~(Len(presidio_entities) > 0 /\ InvalidEntities(presidio_entities) # << >>)
    /\ Len(sentence) > 0
    /\ pm' = << PlaceholderManager(existing_mappings) >>
    /\ effective_entities' =
            (IF Len(presidio_entities) > 0 THEN presidio_entities
             ELSE PRESIDIO_ENTITIES)
    /\ address_spans' = << >>
    /\ current_text' = sentence
    /\ pc' = "ADDRESS_PASS"
    /\ UNCHANGED << sentence, analyzer, presidio_entities, existing_mappings,
                    response, pyap_calls, analyze_calls, addr_log, gen_log,
                    calls, unmasked,
                    sem_value, worker,
                    shared_entities, mask_requests >>

\* 2. First pass: addresses via pyap
AddressPass ==
    /\ pc = "ADDRESS_PASS"
    /\ InList(LOCATION, effective_entities)
    /\ \E addrs \in PyapParse(sentence, MaxMatches) :
        LET r == AddressMaskerMask(pm[1], sentence, addrs)
        IN  /\ pm' = << r.pm >>
            /\ current_text' = r.masked
            /\ address_spans' = r.spans
            /\ effective_entities' =
                    (IF r.spans # << >> THEN Remove(effective_entities, LOCATION)
                     ELSE effective_entities)
            /\ addr_log' = Append(addr_log, [r EXCEPT !.pm = pm[1]])
    /\ pyap_calls' = Append(pyap_calls, sentence)
    /\ pc' = "GENERAL_PASS"
    /\ UNCHANGED << sentence, analyzer, presidio_entities, existing_mappings,
                    response, analyze_calls, gen_log, calls, unmasked,
                    sem_value, worker,
                    shared_entities, mask_requests >>

\* the address pass run whatever the effective list holds
AddressPassAlways ==
    /\ pc = "ADDRESS_PASS"
    /\ ~InList(LOCATION, effective_entities)
    /\ \E addrs \in PyapParse(sentence, MaxMatches) :
        LET r == AddressMaskerMask(pm[1], sentence, addrs)
        IN  /\ pm' = << r.pm >>
            /\ current_text' = r.masked
            /\ address_spans' = r.spans
            /\ addr_log' = Append(addr_log, [r EXCEPT !.pm = pm[1]])
    /\ pyap_calls' = Append(pyap_calls, sentence)
    /\ pc' = "GENERAL_PASS"
    /\ UNCHANGED << sentence, analyzer, presidio_entities, existing_mappings,
                    effective_entities, response, analyze_calls, gen_log,
                    calls, unmasked, sem_value, worker,
                    shared_entities, mask_requests >>

\* "LOCATION" not in effective_entities
AddressPassSkipped ==
    /\ pc = "ADDRESS_PASS"
    /\ ~InList(LOCATION, effective_entities)
    /\ pc' = "GENERAL_PASS"
    /\ UNCHANGED << sentence, analyzer, presidio_entities, existing_mappings, pm,
                    effective_entities, current_text, address_spans, response,
                    pyap_calls, analyze_calls, addr_log, gen_log, calls, unmasked,
                    sem_value, worker,
                    shared_entities, mask_requests >>

\* pyap.parse raises: nothing in AddressMasker.mask or mask_sentence catches
\* it, mask_pii_data logs it and raises it again
AddressPassRaises ==
    /\ pc = "ADDRESS_PASS"
    /\ InList(LOCATION, effective_entities)
    /\ pyap_calls' = Append(pyap_calls, sentence)
    /\ response' = [NoResponse EXCEPT !.status = 500]
    /\ pc' = "FAILED"
    /\ UNCHANGED << sentence, analyzer, presidio_entities, existing_mappings, pm,
                    effective_entities, current_text, address_spans,
                    analyze_calls, addr_log, gen_log, calls, unmasked,
                    sem_value, worker,
                    shared_entities, mask_requests >>

\* 3. Second pass: remaining entities via Presidio, then return
GeneralPass ==
    /\ pc = "GENERAL_PASS"
    /\ analyzer
    /\ effective_entities # << >>
    /\ \E results \in Analyze(current_text, effective_entities, MaxMatches) :
        LET r == PresidioMaskerMask(pm[1], current_text, effective_entities,
                                    address_spans, results)
        IN  /\ pm' = << r.pm >>
            /\ current_text' = r.masked
            /\ gen_log' = Append(gen_log, [r EXCEPT !.pm = pm[1]])
            /\ response' = [NoResponse EXCEPT !.status = 200,
                                              !.masked_data = r.masked,
                                              !.mappings = Mappings(r.pm)]
    /\ analyze_calls' = Append(analyze_calls,
                               [text |-> current_text, entities |-> effective_entities])
    /\ pc' = "DONE"
    /\ UNCHANGED << sentence, analyzer, presidio_entities, existing_mappings,
                    effective_entities, address_spans, pyap_calls, addr_log,
                    calls, unmasked,
                    sem_value, worker,
                    shared_entities, mask_requests >>

\* a missing analyzer treated as an error
GeneralPassSkippedFails ==
    /\ pc = "GENERAL_PASS"
    /\ ~(analyzer /\ effective_entities # << >>)
    /\ response' = [NoResponse EXCEPT !.status = 500]
    /\ pc' = "FAILED"
    /\ UNCHANGED << sentence, analyzer, presidio_entities, existing_mappings, pm,
                    effective_entities, current_text, address_spans, pyap_calls,
                    analyze_calls, addr_log, gen_log, calls, unmasked,
                    sem_value, worker,
                    shared_entities, mask_requests >>

\* no analyzer, or nothing left to detect: return what the address pass left
GeneralPassSkipped ==
    /\ pc = "GENERAL_PASS"
    /\ ~(analyzer /\ effective_entities # << >>)
    /\ response' = [NoResponse EXCEPT !.status = 200,
                                      !.masked_data = current_text,
                                      !.mappings = Mappings(pm[1])]
    /\ pc' = "DONE"
    /\ UNCHANGED << sentence, analyzer, presidio_entities, existing_mappings, pm,
                    effective_entities, current_text, address_spans, pyap_calls,
                    analyze_calls, addr_log, gen_log, calls, unmasked,
                    sem_value, worker,
                    shared_entities, mask_requests >>

\* analyzer.analyze raises: nothing in PresidioMasker.mask or mask_sentence
\* catches it, mask_pii_data logs it and raises it again
GeneralPassRaises ==
    /\ pc = "GENERAL_PASS"
    /\ analyzer
    /\ effective_entities # << >>
    /\ analyze_calls' = Append(analyze_calls,
                               [text |-> current_text, entities |-> effective_entities])
    /\ response' = [NoResponse EXCEPT !.status = 500]
    /\ pc' = "FAILED"
    /\ UNCHANGED << sentence, analyzer, presidio_entities, existing_mappings, pm,
                    effective_entities, current_text, address_spans, pyap_calls,
                    addr_log, gen_log, calls, unmasked,
                    sem_value, worker,
                    shared_entities, mask_requests >>

\* the caller hands the response of /mask to /unmask (unmask_pii_data)
Unmask ==
    /\ pc = "DONE"
    /\ unmasked' = << UnmaskSentence(response.masked_data, response.mappings) >>
    /\ pc' = "UNMASKED"
    /\ UNCHANGED << sentence, analyzer, presidio_entities, existing_mappings, pm,
                    effective_entities, current_text, address_spans, response,
                    pyap_calls, analyze_calls, addr_log, gen_log, calls,
                    sem_value, worker,
                    shared_entities, mask_requests >>

-----------------------------------------------------------------------------
(* The requests of the model. *)

BOGUS_TYPE == <<"B","O","G","U","S","_","T","Y","P","E">>

\* the text "a<URL_1>" and its like: letters, blanks and placeholder tokens
Sentences ==
    { << >>,
      <<"a">>,
      <<"a", "b">>,
      <<"a", " ">>,
      FormatPlaceholder(URL, 1),
      <<"a">> \o FormatPlaceholder(URL, 1) }

\* entity lists a caller sends: enumerated types, twice the same, unknown ones
EntityLists == SeqsUpTo({ URL, LOCATION, BOGUS_TYPE }, MaxEntities)

SeedKeys == { FormatPlaceholder(URL, 1), FormatPlaceholder(LOCATION, 1), <<"a">> }

SeedValues == { <<"a">>, <<"b">> }

\* existing_mappings of a request: no entry or one
Seeds == { << >> } \cup { << <<k, v>> >> : k \in SeedKeys, v \in SeedValues }

Init ==
    /\ pc = "VALIDATING"
    /\ sentence \in Sentences
    /\ analyzer \in BOOLEAN
    /\ presidio_entities \in EntityLists
    /\ existing_mappings \in Seeds
    /\ pm = << >>
    /\ effective_entities = << >>
    /\ current_text = << >>
    /\ address_spans = << >>
    /\ response = NoResponse
    /\ pyap_calls = << >>
    /\ analyze_calls = << >>
    /\ addr_log = << >>
    /\ gen_log = << >>
    /\ calls = << >>
    /\ unmasked = << >>
    /\ sem_value = -1
    /\ worker = NoWorkers
    /\ shared_entities = PRESIDIO_ENTITIES
    /\ mask_requests = << >>

Next ==
    \/ Reject
    \/ ReturnEmpty
    \/ Setup
    \/ AddressPass
    \/ AddressPassSkipped
    \/ AddressPassRaises
    \/ GeneralPass
    \/ GeneralPassSkipped
    \/ GeneralPassRaises
    \/ Unmask

Spec == Init /\ [][Next]_vars

-----------------------------------------------------------------------------
(* The passes called directly, as the tests of the repository call them:     *)
(* AddressMasker(pm).mask(text) and PresidioMasker(analyzer, pm, "en")       *)
(* .mask(text, entities, exclude_spans).                                     *)

PassTexts ==
    { <<"a", "b">>,
      <<"a", " ">>,
      <<"a">> \o FormatPlaceholder(URL, 1),
      <<"1"," ","M","a","i","n"," ","S","t",","," ","N","Y">> }

PassSeeds ==
    { << >>,
      << <<FormatPlaceholder(URL, 1), <<"a">> >> >>,
      << <<FormatPlaceholder(LOCATION, 1), <<"a">> >> >> }

PassEntityLists == { << >>, << URL >>, << URL, LOCATION >> }

PassInit ==
    /\ pc = "PASS_READY"
    /\ sentence \in PassTexts
    /\ existing_mappings \in PassSeeds
    /\ pm = << PlaceholderManager(existing_mappings) >>
    /\ analyzer = TRUE
    /\ presidio_entities = << >>
    /\ effective_entities = << >>
    /\ current_text = sentence
    /\ address_spans = << >>
    /\ response = NoResponse
    /\ pyap_calls = << >>
    /\ analyze_calls = << >>
    /\ addr_log = << >>
    /\ gen_log = << >>
    /\ calls = << >>
    /\ unmasked = << >>
    /\ sem_value = -1
    /\ worker = NoWorkers
    /\ shared_entities = PRESIDIO_ENTITIES
    /\ mask_requests = << >>

\* masked_text, spans = AddressMasker(pm).mask(text)
DirectAddressMask ==
    /\ pc = "PASS_READY"
    /\ \E addrs \in PyapParse(sentence, MaxAddr) :
        LET r == AddressMaskerMask(pm[1], sentence, addrs)
        IN  /\ pm' = << r.pm >>
            /\ current_text' = r.masked
            /\ address_spans' = r.spans
            /\ addr_log' = Append(addr_log, [r EXCEPT !.pm = pm[1]])
    /\ pyap_calls' = Append(pyap_calls, sentence)
    /\ pc' = "PASS_DONE"
    /\ UNCHANGED << sentence, analyzer, presidio_entities, existing_mappings,
                    effective_entities, response, analyze_calls, gen_log,
                    calls, unmasked,
                    sem_value, worker,
                    shared_entities, mask_requests >>

\* masked_text = PresidioMasker(analyzer, pm, "en").mask(text, entities, exclude_spans)
DirectPresidioMask ==
    /\ pc = "PASS_READY"
    /\ \E entities \in PassEntityLists \ { << >> } :
       \E exclude_spans \in SeqsUpTo(Spans(sentence), 1) :
       \E results \in Analyze(sentence, entities, MaxRes) :
        LET r == PresidioMaskerMask(pm[1], sentence, entities, exclude_spans, results)
        IN  /\ pm' = << r.pm >>
            /\ current_text' = r.masked
            /\ address_spans' = exclude_spans
            /\ effective_entities' = entities
            /\ gen_log' = Append(gen_log, [r EXCEPT !.pm = pm[1]])
            /\ analyze_calls' = Append(analyze_calls,
                                       [text |-> sentence, entities |-> entities])
    /\ pc' = "PASS_DONE"
    /\ UNCHANGED << sentence, analyzer, presidio_entities, existing_mappings,
                    response, pyap_calls, addr_log, calls, unmasked,
                    sem_value, worker,
                    shared_entities, mask_requests >>

\* if not entities: return text
DirectPresidioMaskNoEntities ==
    /\ pc = "PASS_READY"
    /\ \E exclude_spans \in SeqsUpTo(Spans(sentence), 1) :
        address_spans' = exclude_spans
    /\ pc' = "PASS_DONE"
    /\ UNCHANGED << sentence, analyzer, presidio_entities, existing_mappings, pm,
                    effective_entities, current_text, response, pyap_calls,
                    analyze_calls, addr_log, gen_log, calls, unmasked,
                    sem_value, worker,
                    shared_entities, mask_requests >>

PassNext ==
    \/ DirectAddressMask
    \/ DirectPresidioMask
    \/ DirectPresidioMaskNoEntities

PassSpec == PassInit /\ [][PassNext]_vars

-----------------------------------------------------------------------------
(* A PlaceholderManager driven directly: built from a seed, then any         *)
(* placeholder_for calls.                                                    *)

RegistryKeys ==
    { FormatPlaceholder(URL, 1),
      FormatPlaceholder(URL, 2),
      <<"<","U","R","L","_","0","2",">">>,
      FormatPlaceholder(LOCATION, 1),
      <<"<","U","R","L","_","x",">">>,
      <<"a">> }

RegistrySeeds ==
    { d \in SeqsUpTo(RegistryKeys \X SeedValues, MaxSeed) : IsDict(d) }

RegistryInit ==
    /\ pc = "REGISTRY"
    /\ existing_mappings \in RegistrySeeds
    /\ pm = << PlaceholderManager(existing_mappings) >>
    /\ sentence = << >>
    /\ analyzer = FALSE
    /\ presidio_entities = << >>
    /\ effective_entities = << >>
    /\ current_text = << >>
    /\ address_spans = << >>
    /\ response = NoResponse
    /\ pyap_calls = << >>
    /\ analyze_calls = << >>
    /\ addr_log = << >>
    /\ gen_log = << >>
    /\ calls = << >>
    /\ unmasked = << >>
    /\ sem_value = -1
    /\ worker = NoWorkers
    /\ shared_entities = PRESIDIO_ENTITIES
    /\ mask_requests = << >>

\* pm.placeholder_for(entity, value)
PlaceholderFor ==
    /\ pc = "REGISTRY"
    /\ Len(calls) < MaxCalls
    /\ \E entity \in { URL, LOCATION }, value \in SeedValues :
        LET r == placeholder_for(pm[1], entity, value)
        IN  /\ pm' = << r.pm >>
            /\ calls' = Append(calls, <<entity, value, r.placeholder>>)
    /\ UNCHANGED << pc, sentence, analyzer, presidio_entities, existing_mappings,
                    effective_entities, current_text, address_spans, response,
                    pyap_calls, analyze_calls, addr_log, gen_log, unmasked,
                    sem_value, worker,
                    shared_entities, mask_requests >>

RegistryNext == PlaceholderFor

RegistrySpec == RegistryInit /\ [][RegistryNext]_vars

-----------------------------------------------------------------------------
(* _unmask_sentence called directly, as its tests do, on any text and any   *)
(* mapping a client may send.                                                *)

MaxMappings == 2

TOKEN_A == <<"<","A","_","1",">">>
TOKEN_B == <<"<","B","_","1",">">>
TOKEN_C == <<"<","C","_","1",">">>
BARE_A == <<"A","_","1">>

UnmaskTexts ==
    { << >>,
      <<"x">>,
      TOKEN_A,
      TOKEN_C,
      TOKEN_A \o <<" ">> \o BARE_A,
      TOKEN_B \o TOKEN_A,
      <<"a">> \o TOKEN_A \o <<"b">> \o TOKEN_A,
      TOKEN_C \o <<" ">> \o TOKEN_B }

UnmaskKeys == { TOKEN_A, TOKEN_B, BARE_A }

UnmaskValues == { <<"x">>, <<"y","z">>, TOKEN_B, BARE_A }

UnmaskMappings ==
    { d \in SeqsUpTo(UnmaskKeys \X UnmaskValues, MaxMappings) : IsDict(d) }

UnmaskInit ==
    /\ pc = "UNMASK_READY"
    /\ sentence \in UnmaskTexts
    /\ existing_mappings \in UnmaskMappings
    /\ pm = << >>
    /\ analyzer = FALSE
    /\ presidio_entities = << >>
    /\ effective_entities = << >>
    /\ current_text = << >>
    /\ address_spans = << >>
    /\ response = NoResponse
    /\ pyap_calls = << >>
    /\ analyze_calls = << >>
    /\ addr_log = << >>
    /\ gen_log = << >>
    /\ calls = << >>
    /\ unmasked = << >>
    /\ sem_value = -1
    /\ worker = NoWorkers
    /\ shared_entities = PRESIDIO_ENTITIES
    /\ mask_requests = << >>

\* _unmask_sentence(masked_data, mappings)
UnmaskDirect ==
    /\ pc = "UNMASK_READY"
    /\ unmasked' = << UnmaskSentence(sentence, existing_mappings) >>
    /\ pc' = "UNMASK_DONE"
    /\ UNCHANGED << sentence, analyzer, presidio_entities, existing_mappings, pm,
                    effective_entities, current_text, address_spans, response,
                    pyap_calls, analyze_calls, addr_log, gen_log, calls,
                    sem_value, worker,
                    shared_entities, mask_requests >>

UnmaskNext == UnmaskDirect

UnmaskSpec == UnmaskInit /\ [][UnmaskNext]_vars

-----------------------------------------------------------------------------
(* Concurrent mask requests. The lists and dicts of a request are objects:   *)
(* the module's PRESIDIO_ENTITIES (shared_entities), the caller's list and   *)
(* seed, and the request's own effective list and registry. A local that     *)
(* names a list holds a reference, and remove writes to the object named.    *)

\* concurrent requests
MaxConcurrent == 2

Requests == 1..MaxConcurrent

\* effective_entities = list(...) if presidio_entities else list(...): the
\* shared enumeration or the caller's list itself, without the copy
EffectiveAlias(entities) ==
    IF Len(entities) > 0 THEN "caller" ELSE "shared"

\* effective_entities = list(presidio_entities) if presidio_entities
\* else list(PRESIDIO_ENTITIES): a new list in both branches
EffectiveRef(entities) == "own"

\* the list effective_entities names
Deref(r) ==
    CASE r.effective_ref = "own" -> r.effective_entities
      [] r.effective_ref = "caller" -> r.presidio_entities
      [] r.effective_ref = "shared" -> shared_entities

\* entity not in PRESIDIO_ENTITIES, read from the module's list as it is now
InvalidNow(entities) ==
    SelectSeq(entities, LAMBDA entity : ~InList(entity, shared_entities))

\* the results the shared analyzer gives one request: URL and LOCATION results
RequestAnalyze(text, entities) ==
    Analyze(text, SelectSeq(entities, LAMBDA e : e \in { URL, LOCATION }), MaxMatches)

RequestSentences == { << >>, <<"a", "b">> }

RequestEntityLists == { << >>, << LOCATION >>, << URL >>, << BOGUS_TYPE >> }

RequestSeeds == { << >>, << << FormatPlaceholder(LOCATION, 1), <<"b">> >> >> }

\* the arguments of one mask_sentence call, the analyzer given
RequestArgs ==
    [sentence : RequestSentences, presidio_entities : RequestEntityLists,
     existing_mappings : RequestSeeds]

NewRequest(args) ==
    [pc |-> "VALIDATING",
     args |-> args,
     presidio_entities |-> args.presidio_entities,
     existing_mappings |-> args.existing_mappings,
     pm |-> << >>,
     effective_ref |-> "own",
     effective_entities |-> << >>,
     current_text |-> << >>,
     address_spans |-> << >>,
     addrs |-> << >>,
     asked |-> << >>,
     results |-> << >>,
     response |-> NoResponse]

IsolationInit ==
    /\ pc = "SERVING"
    /\ sentence = << >>
    /\ analyzer = TRUE
    /\ presidio_entities = << >>
    /\ existing_mappings = << >>
    /\ pm = << >>
    /\ effective_entities = << >>
    /\ current_text = << >>
    /\ address_spans = << >>
    /\ response = NoResponse
    /\ pyap_calls = << >>
    /\ analyze_calls = << >>
    /\ addr_log = << >>
    /\ gen_log = << >>
    /\ calls = << >>
    /\ unmasked = << >>
    /\ sem_value = -1
    /\ worker = NoWorkers
    /\ shared_entities = PRESIDIO_ENTITIES
    /\ mask_requests \in [Requests -> { NewRequest(args) : args \in RequestArgs }]

IsolationVars ==
    << pc, sentence, analyzer, presidio_entities, existing_mappings, pm,
       effective_entities, current_text, address_spans, response, pyap_calls,
       analyze_calls, addr_log, gen_log, calls, unmasked, sem_value, worker >>

\* raise HTTPException(status_code=422, ...)
RequestReject(q) ==
    LET r == mask_requests[q]
    IN  /\ r.pc = "VALIDATING"
        /\ Len(r.presidio_entities) > 0
        /\ InvalidNow(r.presidio_entities) # << >>
        /\ mask_requests' = [mask_requests EXCEPT
                ![q].pc = "REJECTED",
                ![q].response = [NoResponse EXCEPT
                    !.status = 422, !.detail = InvalidNow(r.presidio_entities)]]
        /\ UNCHANGED << IsolationVars, shared_entities >>

\* if not sentence: return "", {}
RequestReturnEmpty(q) ==
    LET r == mask_requests[q]
    IN  /\ r.pc = "VALIDATING"
        /\ ~(Len(r.presidio_entities) > 0 /\ InvalidNow(r.presidio_entities) # << >>)
        /\ Len(r.args.sentence) = 0
        /\ mask_requests' = [mask_requests EXCEPT
                ![q].pc = "DONE",
                ![q].response = [NoResponse EXCEPT !.status = 200]]
        /\ UNCHANGED << IsolationVars, shared_entities >>

\* 1. Setup helpers
RequestSetup(q) ==
    LET r == mask_requests[q]
    IN  /\ r.pc = "VALIDATING"
        /\ ~(Len(r.presidio_entities) > 0 /\ InvalidNow(r.presidio_entities) # << >>)
        /\ Len(r.args.sentence) > 0
        /\ mask_requests' = [mask_requests EXCEPT
                ![q].pc = "ADDRESS_PASS",
                ![q].pm = << PlaceholderManager(r.existing_mappings) >>,
                ![q].effective_ref = EffectiveRef(r.presidio_entities),
                ![q].effective_entities =
                    (IF Len(r.presidio_entities) > 0 THEN r.presidio_entities
                     ELSE shared_entities),
                ![q].current_text = r.args.sentence]
        /\ UNCHANGED << IsolationVars, shared_entities >>

\* 2. First pass; effective_entities.remove("LOCATION") writes to the list
\* effective_entities names
RequestAddressPass(q) ==
    LET r == mask_requests[q]
    IN  /\ r.pc = "ADDRESS_PASS"
        /\ InList(LOCATION, Deref(r))
        /\ \E addrs \in PyapParse(r.args.sentence, MaxMatches) :
            LET a == AddressMaskerMask(r.pm[1], r.args.sentence, addrs)
                removed == IF a.spans # << >> THEN Remove(Deref(r), LOCATION)
                           ELSE Deref(r)
                after == [r EXCEPT !.pc = "GENERAL_PASS",
                                   !.pm = << a.pm >>,
                                   !.current_text = a.masked,
                                   !.address_spans = a.spans,
                                   !.addrs = << addrs >>]
            IN  /\ mask_requests' = [mask_requests EXCEPT ![q] =
                        CASE r.effective_ref = "own" ->
                                [after EXCEPT !.effective_entities = removed]
                          [] r.effective_ref = "caller" ->
                                [after EXCEPT !.presidio_entities = removed]
                          [] r.effective_ref = "shared" -> after]
                /\ shared_entities' =
                        (IF r.effective_ref = "shared" THEN removed
                         ELSE shared_entities)
        /\ UNCHANGED IsolationVars

\* "LOCATION" not in effective_entities
RequestAddressPassSkipped(q) ==
    LET r == mask_requests[q]
    IN  /\ r.pc = "ADDRESS_PASS"
        /\ ~InList(LOCATION, Deref(r))
        /\ mask_requests' = [mask_requests EXCEPT ![q].pc = "GENERAL_PASS"]
        /\ UNCHANGED << IsolationVars, shared_entities >>

\* 3. Second pass, then return
RequestGeneralPass(q) ==
    LET r == mask_requests[q]
    IN  /\ r.pc = "GENERAL_PASS"
        /\ Deref(r) # << >>
        /\ \E results \in RequestAnalyze(r.current_text, Deref(r)) :
            LET g == PresidioMaskerMask(r.pm[1], r.current_text, Deref(r),
                                        r.address_spans, results)
            IN  mask_requests' = [mask_requests EXCEPT
                    ![q].pc = "DONE",
                    ![q].pm = << g.pm >>,
                    ![q].current_text = g.masked,
                    ![q].asked = << [text |-> r.current_text, entities |-> Deref(r)] >>,
                    ![q].results = << results >>,
                    ![q].response = [NoResponse EXCEPT
                        !.status = 200, !.masked_data = g.masked,
                        !.mappings = Mappings(g.pm)]]
        /\ UNCHANGED << IsolationVars, shared_entities >>

\* nothing left to detect: return what the address pass left
RequestGeneralPassSkipped(q) ==
    LET r == mask_requests[q]
    IN  /\ r.pc = "GENERAL_PASS"
        /\ Deref(r) = << >>
        /\ mask_requests' = [mask_requests EXCEPT
                ![q].pc = "DONE",
                ![q].response = [NoResponse EXCEPT
                    !.status = 200, !.masked_data = r.current_text,
                    !.mappings = Mappings(r.pm[1])]]
        /\ UNCHANGED << IsolationVars, shared_entities >>

IsolationNext ==
    \E q \in Requests :
        \/ RequestReject(q)
        \/ RequestReturnEmpty(q)
        \/ RequestSetup(q)
        \/ RequestAddressPass(q)
        \/ RequestAddressPassSkipped(q)
        \/ RequestGeneralPass(q)
        \/ RequestGeneralPassSkipped(q)

IsolationSpec == IsolationInit /\ [][IsolationNext]_vars

-----------------------------------------------------------------------------
(* GoogleDlpRecognizer.analyze (utils/dlp_recognizer.py), the recognizer    *)
(* the analyzer engine calls with the entities of the request.               *)

\* findings one inspect_content call returns (DlpSpec)
MaxFindings == 1

\* len(c.encode("utf-8")) for the characters of the model's texts
Utf8Width(c) == IF c = "é" THEN 2 ELSE 1

\* len(text[:n].encode("utf-8"))
RECURSIVE ByteLen(_, _)
ByteLen(text, n) ==
    IF n = 0 THEN 0 ELSE ByteLen(text, n - 1) + Utf8Width(text[n])

\* len(utf8_text[:b].decode("utf-8", errors="ignore")): the characters that
\* lie whole within the first b bytes
CharOffset(text, b) ==
    Max({ n \in 0..Len(text) : ByteLen(text, n) <= b })

\* dlp_v2.Likelihood
LIKELIHOOD_UNSPECIFIED == 0
VERY_UNLIKELY == 1
UNLIKELY == 2
POSSIBLE == 3
LIKELY == 4
VERY_LIKELY == 5

\* _convert_likelihood_to_score, in tenths
ConvertLikelihoodToScore(likelihood) ==
    IF likelihood \in VERY_UNLIKELY..VERY_LIKELY THEN 2 * likelihood ELSE 0

\* the info types asked for: those of every entity, in order
RECURSIVE DlpInfoTypes(_, _)
DlpInfoTypes(entities, i) ==
    IF i > Len(entities) THEN << >>
    ELSE DlpTypesOf(entities[i]) \o DlpInfoTypes(entities, i + 1)

\* the loop over response.result.findings
RECURSIVE DlpResults(_, _, _)
DlpResults(text, findings, i) ==
    IF i > Len(findings) THEN << >>
    ELSE LET finding == findings[i]
             dlp_type == finding.info_type
         IN  (IF dlp_type \in DictKeys(DLP_TO_PRESIDIO)
              THEN << [entity_type |-> DictGet(DLP_TO_PRESIDIO, dlp_type),
                       start |-> CharOffset(text, finding.start_byte),
                       end |-> CharOffset(text, finding.end_byte),
                       score |-> ConvertLikelihoodToScore(finding.likelihood)] >>
              ELSE << >>)
             \o DlpResults(text, findings, i + 1)

\* what inspect_content may find in text for the info types asked for, with
\* min_likelihood POSSIBLE
DlpFindings(text, info_types) ==
    { f \in [info_type : ListSet(info_types),
              start_byte : 0..ByteLen(text, Len(text)),
              end_byte : 0..ByteLen(text, Len(text)),
              likelihood : { POSSIBLE, VERY_LIKELY }] :
        f.start_byte < f.end_byte }

DlpTexts == { << >>, <<"a">>, <<"é","a">> }

DlpEntityLists == SeqsUpTo({ US_SSN, GOVERNMENT_ID, URL, IP_ADDRESS }, MaxEntities)

DlpInit ==
    /\ pc = "DLP_READY"
    /\ sentence \in DlpTexts
    /\ effective_entities \in DlpEntityLists
    /\ existing_mappings = << >>
    /\ pm = << >>
    /\ analyzer = TRUE
    /\ presidio_entities = << >>
    /\ current_text = sentence
    /\ address_spans = << >>
    /\ response = NoResponse
    /\ pyap_calls = << >>
    /\ analyze_calls = << >>
    /\ addr_log = << >>
    /\ gen_log = << >>
    /\ calls = << >>
    /\ unmasked = << >>
    /\ sem_value = -1
    /\ worker = NoWorkers
    /\ shared_entities = PRESIDIO_ENTITIES
    /\ mask_requests = << >>

\* analyze returns [] before any call: no text, or no info type to ask for
DlpAnalyzeNothing ==
    /\ pc = "DLP_READY"
    /\ Len(sentence) = 0 \/ DlpInfoTypes(effective_entities, 1) = << >>
    /\ analyze_calls' = Append(analyze_calls,
            [text |-> sentence, entities |-> effective_entities,
             inspected |-> FALSE, findings |-> << >>, results |-> << >>])
    /\ pc' = "DLP_DONE"
    /\ UNCHANGED << sentence, analyzer, presidio_entities, existing_mappings, pm,
                    effective_entities, current_text, address_spans, response,
                    pyap_calls, addr_log, gen_log, calls, unmasked,
                    sem_value, worker,
                    shared_entities, mask_requests >>

\* analyze with inspect_content answering
DlpAnalyze ==
    /\ pc = "DLP_READY"
    /\ Len(sentence) > 0
    /\ DlpInfoTypes(effective_entities, 1) # << >>
    /\ \E findings \in SeqsUpTo(DlpFindings(sentence,
                                            DlpInfoTypes(effective_entities, 1)),
                                MaxFindings) :
        analyze_calls' = Append(analyze_calls,
            [text |-> sentence, entities |-> effective_entities,
             inspected |-> TRUE, findings |-> findings,
             results |-> DlpResults(sentence, findings, 1)])
    /\ pc' = "DLP_DONE"
    /\ UNCHANGED << sentence, analyzer, presidio_entities, existing_mappings, pm,
                    effective_entities, current_text, address_spans, response,
                    pyap_calls, addr_log, gen_log, calls, unmasked,
                    sem_value, worker,
                    shared_entities, mask_requests >>

\* analyze with inspect_content raising: logged, [] returned
DlpAnalyzeRaises ==
    /\ pc = "DLP_READY"
    /\ Len(sentence) > 0
    /\ DlpInfoTypes(effective_entities, 1) # << >>
    /\ analyze_calls' = Append(analyze_calls,
            [text |-> sentence, entities |-> effective_entities,
             inspected |-> TRUE, findings |-> << >>, results |-> << >>])
    /\ pc' = "DLP_FAILED"
    /\ UNCHANGED << sentence, analyzer, presidio_entities, existing_mappings, pm,
                    effective_entities, current_text, address_spans, response,
                    pyap_calls, addr_log, gen_log, calls, unmasked,
                    sem_value, worker,
                    shared_entities, mask_requests >>

DlpNext == DlpAnalyzeNothing \/ DlpAnalyze \/ DlpAnalyzeRaises

DlpSpec == DlpInit /\ [][DlpNext]_vars

-----------------------------------------------------------------------------
(* The application lifecycle: every worker process runs lifespan, which     *)
(* loads the model under the machine-wide named semaphore, then serves      *)
(* /mask requests until shutdown.                                            *)

\* the rest of the state, which the lifecycle leaves alone
RequestVars ==
    << pc, sentence, analyzer, presidio_entities, existing_mappings, pm,
       effective_entities, current_text, address_spans, response, pyap_calls,
       analyze_calls, addr_log, gen_log, calls, unmasked,
       shared_entities, mask_requests >>

\* what lifespan holds when initialization did not succeed
NotInitialized == [analyzer |-> FALSE, successful |-> FALSE]

\* init_service(), then on to initialize_analyzer_engine()
InitService(w) ==
    /\ worker[w].pc = "START"
    /\ worker' = [worker EXCEPT ![w].pc = "OPEN_SEMAPHORE"]
    /\ UNCHANGED << RequestVars, sem_value >>

\* init_service() raises: lifespan logs and keeps (None, False)
InitServiceRaises(w) ==
    /\ worker[w].pc = "START"
    /\ worker' = [worker EXCEPT ![w].pc = "SET_STATE", ![w].result = NotInitialized]
    /\ UNCHANGED << RequestVars, sem_value >>

\* posix_ipc.Semaphore(SEMAPHORE_NAME, O_CREAT, initial_value=1)
OpenSemaphore(w) ==
    /\ worker[w].pc = "OPEN_SEMAPHORE"
    /\ sem_value' = IF sem_value = -1 THEN 1 ELSE sem_value
    /\ worker' = [worker EXCEPT ![w].pc = "WAITING", ![w].sem = TRUE]
    /\ UNCHANGED RequestVars

\* posix_ipc.Semaphore(...) raises: sem stays None, (None, False) is returned
OpenSemaphoreRaises(w) ==
    /\ worker[w].pc = "OPEN_SEMAPHORE"
    /\ worker' = [worker EXCEPT ![w].pc = "SET_STATE", ![w].result = NotInitialized]
    /\ UNCHANGED << RequestVars, sem_value >>

\* sem.acquire() returns
Acquire(w) ==
    /\ worker[w].pc = "WAITING"
    /\ sem_value > 0
    /\ sem_value' = sem_value - 1
    /\ worker' = [worker EXCEPT ![w].pc = "LOADING", ![w].holds = TRUE]
    /\ UNCHANGED RequestVars

\* sem.acquire() is blocked and a signal interrupts the wait: it raises
\* SignalError, the outer except takes (None, False) and finally runs
AcquireInterrupted(w) ==
    /\ worker[w].pc = "WAITING"
    /\ sem_value = 0
    /\ worker' = [worker EXCEPT ![w].pc = "RELEASING", ![w].result = NotInitialized]
    /\ UNCHANGED << RequestVars, sem_value >>

\* the critical section: the engine and registry fail (return None, False),
\* CustomAnalyzer raises (None, False), or the analyzer is built
LoadModel(w) ==
    /\ worker[w].pc = "LOADING"
    /\ \E loaded \in BOOLEAN :
        worker' = [worker EXCEPT
                    ![w].pc = "RELEASING",
                    ![w].result = [analyzer |-> loaded, successful |-> loaded]]
    /\ UNCHANGED << RequestVars, sem_value >>

\* finally: if sem: sem.release(); sem.close()
Release(w) ==
    /\ worker[w].pc = "RELEASING"
    /\ sem_value' = IF worker[w].sem THEN sem_value + 1 ELSE sem_value
    /\ worker' = [worker EXCEPT ![w].pc = "SET_STATE", ![w].holds = FALSE]
    /\ UNCHANGED RequestVars

\* lifespan with a success flag that is set whenever startup got this far
SetStateAlwaysReady(w) ==
    /\ worker[w].pc = "SET_STATE"
    /\ worker' = [worker EXCEPT
                    ![w].pc = "SERVING",
                    ![w].analyzer_engine = worker[w].result.analyzer,
                    ![w].service_initialized_successfully = TRUE]
    /\ UNCHANGED << RequestVars, sem_value >>

\* app.state.analyzer_engine = analyzer_instance
\* app.state.service_initialized_successfully = initialization_successful; yield
SetState(w) ==
    /\ worker[w].pc = "SET_STATE"
    /\ worker' = [worker EXCEPT
                    ![w].pc = "SERVING",
                    ![w].analyzer_engine = worker[w].result.analyzer,
                    ![w].service_initialized_successfully = worker[w].result.successful]
    /\ UNCHANGED << RequestVars, sem_value >>

\* the dependency looking at the flag only
DependencyFlagOnly(successful, engine) ==
    IF ~successful THEN [status |-> 503, detail |-> "Core service components are not ready"]
    ELSE [status |-> 0, detail |-> ""]

\* get_analyzer_engine_dependency: status 0 stands for returning the analyzer
GetAnalyzerEngineDependency(successful, engine) ==
    IF ~successful THEN [status |-> 503, detail |-> "Core service components are not ready"]
    ELSE IF ~engine THEN [status |-> 503, detail |-> "AnalyzerEngine not available"]
    ELSE [status |-> 0, detail |-> ""]

\* what mask_pii_data answers once mask_sentence is called
MaskStatuses == { 200, 422, 500 }

\* POST /mask on worker w
MaskEndpoint(w) ==
    /\ worker[w].pc = "SERVING"
    /\ Len(worker[w].requests) < MaxRequests
    /\ LET dep == GetAnalyzerEngineDependency(
                        worker[w].service_initialized_successfully,
                        worker[w].analyzer_engine)
       IN  \E st \in MaskStatuses :
            worker' = [worker EXCEPT ![w].requests = Append(@,
                [successful |-> worker[w].service_initialized_successfully,
                 engine |-> worker[w].analyzer_engine,
                 mask_sentence_called |-> (dep.status = 0),
                 status |-> IF dep.status = 0 THEN st ELSE dep.status,
                 detail |-> dep.detail])]
    /\ UNCHANGED << RequestVars, sem_value >>

\* lifespan after yield
Shutdown(w) ==
    /\ worker[w].pc = "SERVING"
    /\ worker' = [worker EXCEPT
                    ![w].pc = "STOPPED",
                    ![w].analyzer_engine = FALSE,
                    ![w].service_initialized_successfully = FALSE]
    /\ UNCHANGED << RequestVars, sem_value >>

\* a caller assigning app.state while the application serves, before it
\* posts a request
AssignAppState(w) ==
    /\ worker[w].pc = "SERVING"
    /\ Len(worker[w].requests) < MaxRequests
    /\ \E engine \in BOOLEAN, successful \in BOOLEAN :
        worker' = [worker EXCEPT
                    ![w].analyzer_engine = engine,
                    ![w].service_initialized_successfully = successful]
    /\ UNCHANGED << RequestVars, sem_value >>

LifecycleInit ==
    /\ pc = "LIFECYCLE"
    /\ sentence = << >>
    /\ analyzer = FALSE
    /\ presidio_entities = << >>
    /\ existing_mappings = << >>
    /\ pm = << >>
    /\ effective_entities = << >>
    /\ current_text = << >>
    /\ address_spans = << >>
    /\ response = NoResponse
    /\ pyap_calls = << >>
    /\ analyze_calls = << >>
    /\ addr_log = << >>
    /\ gen_log = << >>
    /\ calls = << >>
    /\ unmasked = << >>
    /\ sem_value = -1
    /\ worker = NoWorkers
    /\ shared_entities = PRESIDIO_ENTITIES
    /\ mask_requests = << >>

LifecycleNext ==
    \E w \in Workers :
        \/ InitService(w)
        \/ InitServiceRaises(w)
        \/ OpenSemaphore(w)
        \/ OpenSemaphoreRaises(w)
        \/ Acquire(w)
        \/ AcquireInterrupted(w)
        \/ LoadModel(w)
        \/ Release(w)
        \/ SetState(w)
        \/ MaskEndpoint(w)
        \/ Shutdown(w)

LifecycleSpec == LifecycleInit /\ [][LifecycleNext]_vars

\* the lifecycle with workers that keep running: a call that can return
\* returns, a worker that can take the semaphore takes it
LifecycleFairSpec ==
    /\ LifecycleSpec
    /\ \A w \in Workers :
        /\ WF_vars(InitService(w) \/ InitServiceRaises(w))
        /\ WF_vars(OpenSemaphore(w) \/ OpenSemaphoreRaises(w))
        /\ WF_vars(Acquire(w))
        /\ WF_vars(LoadModel(w))
        /\ WF_vars(Release(w))
        /\ WF_vars(SetState(w))

\* the lifecycle with callers that assign app.state, as the tests of the
\* dependency do
DependencyNext ==
    \/ LifecycleNext
    \/ \E w \in Workers : AssignAppState(w)

DependencySpec == LifecycleInit /\ [][DependencyNext]_vars

-----------------------------------------------------------------------------
(* Properties. *)

\* the well-formed seed keys that stand for value under entity
SeededFor(entity, value) ==
    { k \in DictKeys(existing_mappings) :
        /\ PlaceholderMatch(k).match
        /\ PlaceholderMatch(k).entity = entity
        /\ DictGet(existing_mappings, k) = value }

\* C2: within one PlaceholderManager, fresh or seeded, every call
\* placeholder_for(entity, value) with the same pair returns the same token,
\* whatever calls happen in between; a value present under a well-formed seed
\* key of that entity type gets a seeded token of that type and value back,
\* not a newly minted one.
C2_IdempotentIdentity ==
    pc = "REGISTRY" =>
        /\ \A i, j \in 1..Len(calls) :
            (calls[i][1] = calls[j][1] /\ calls[i][2] = calls[j][2])
                => calls[i][3] = calls[j][3]
        /\ \A i \in 1..Len(calls) :
            SeededFor(calls[i][1], calls[i][2]) # {}
                => calls[i][3] \in SeededFor(calls[i][1], calls[i][2])

\* a seeded pair asked for twice with another pair minted in between
C2_Witness ==
    /\ pc = "REGISTRY"
    /\ Len(calls) = 3
    /\ calls[1][1] = calls[3][1]
    /\ calls[1][2] = calls[3][2]
    /\ calls[2][1] = calls[1][1]
    /\ calls[2][2] # calls[1][2]
    /\ SeededFor(calls[1][1], calls[1][2]) # {}
    /\ SeededFor(calls[2][1], calls[2][2]) = {}
    /\ calls[3][3] = calls[1][3]

\* the 0-based offsets at which the non-empty k occurs in text
Occurrences(text, k) == { i \in 0..Len(text) : Len(k) > 0 /\ OccursAt(text, k, i) }

\* whether [s, e) and [i, j) share a character
Overlap(s, e, i, j) ==
    (IF s >= i THEN s ELSE i) < (IF e <= j THEN e ELSE j)

\* sum over spans[n..] of len(placeholder) - (end - start), for spans ending
\* at or before upto
RECURSIVE DeltaBefore(_, _, _)
DeltaBefore(spans, n, upto) ==
    IF n > Len(spans) THEN 0
    ELSE (IF spans[n].end <= upto
          THEN Len(spans[n].placeholder) - (spans[n].end - spans[n].start)
          ELSE 0) + DeltaBefore(spans, n + 1, upto)

\* the token k found at offset i of the input of a pass is intact in its
\* output: no applied span touches it, and it stands where the spans applied
\* to its left have moved it
Intact(text, masked, spans, k, i) ==
    /\ \A n \in 1..Len(spans) :
            ~Overlap(spans[n].start, spans[n].end, i, i + Len(k))
    /\ OccursAt(masked, k, i + DeltaBefore(spans, 1, i))

\* the texts the detectors matched in this request
MatchTexts ==
    UNION { { Slice(addr_log[n].text, addr_log[n].addrs[i].match_start,
                    addr_log[n].addrs[i].match_end) :
                i \in 1..Len(addr_log[n].addrs) } : n \in 1..Len(addr_log) }
    \cup
    UNION { { Slice(gen_log[n].text, gen_log[n].results[i].start,
                    gen_log[n].results[i].end) :
                i \in 1..Len(gen_log[n].results) } : n \in 1..Len(gen_log) }

\* C1: round trip.  For a non-empty text, any requested types, any seed and
\* any detector spans of which none is itself a placeholder token, unmasking
\* the masked text with the returned mapping gives the original text back.
C1_RoundTrip ==
    ( /\ pc = "UNMASKED"
      /\ response.status = 200
      /\ Len(sentence) > 0
      /\ \A t \in MatchTexts :
            /\ t \notin DictKeys(response.mappings)
            /\ ~PlaceholderMatch(t).match )
    => unmasked[1] = sentence

\* the placeholder tokens of the seed
SeededTokens == { k \in DictKeys(existing_mappings) : PlaceholderMatch(k).match }

\* C3 (as claimed): whatever spans the general detector returns, every
\* occurrence of a seeded placeholder token in the text of the general pass
\* is intact in its output.
C3_NoTokenRemasked ==
    (pc = "DONE" /\ Len(gen_log) = 1) =>
        LET g == gen_log[1]
        IN  \A k \in SeededTokens : \A i \in Occurrences(g.text, k) :
                Intact(g.text, g.masked, g.applied, k, i)

\* C3 (amended): the general pass never replaces a span whose text is exactly
\* a key of the mapping, and every occurrence of a key in its text that no
\* returned span overlaps without coinciding with it is intact in its output.
C3_ExactTokenNotRemasked ==
    (pc = "DONE" /\ Len(gen_log) = 1) =>
        LET g == gen_log[1]
            keys == DictKeys(Mappings(g.pm))
        IN  /\ \A n \in 1..Len(g.applied) :
                Slice(g.text, g.applied[n].start, g.applied[n].end) \notin keys
            /\ \A k \in keys : \A i \in Occurrences(g.text, k) :
                (\A n \in 1..Len(g.results) :
                    Overlap(g.results[n].start, g.results[n].end, i, i + Len(k))
                        => (g.results[n].start = i /\ g.results[n].end = i + Len(k)))
                => Intact(g.text, g.masked, g.applied, k, i)

\* the detector flagged a seeded token itself, and the token is still there
C3_Witness ==
    /\ pc = "DONE"
    /\ Len(gen_log) = 1
    /\ Len(gen_log[1].results) = 1
    /\ Slice(gen_log[1].text, gen_log[1].results[1].start, gen_log[1].results[1].end)
            \in SeededTokens
    /\ gen_log[1].applied = << >>
    /\ response.masked_data = sentence
    /\ \E k \in SeededTokens : Contains(response.masked_data, k)

\* spans[i] ends before spans[j] starts whenever i < j
SortedDisjoint(spans) ==
    \A i, j \in 1..Len(spans) :
        i < j => (spans[i].start <= spans[j].start /\ spans[i].end <= spans[j].start)

\* C4: in each pass the spans spliced into the text of the pass are pairwise
\* disjoint and sorted by start offset, whatever list the detector returned.
C4_NoOverlap ==
    /\ \A n \in 1..Len(addr_log) : SortedDisjoint(addr_log[n].replacements)
    /\ \A n \in 1..Len(gen_log) : SortedDisjoint(gen_log[n].applied)

\* C5: the text a pass returns is as long as its input plus the sum over the
\* applied spans of len(placeholder) - len(span); a request returns a text as
\* long as the sentence plus the deltas of both passes.
C5_LengthAccounting ==
    /\ \A n \in 1..Len(addr_log) :
        Len(addr_log[n].masked) =
            Len(addr_log[n].text)
                + DeltaBefore(addr_log[n].replacements, 1, Len(addr_log[n].text))
    /\ \A n \in 1..Len(gen_log) :
        Len(gen_log[n].masked) =
            Len(gen_log[n].text)
                + DeltaBefore(gen_log[n].applied, 1, Len(gen_log[n].text))
    /\ (pc = "DONE" /\ Len(sentence) > 0) =>
        Len(response.masked_data) =
            Len(sentence)
            + (IF addr_log = << >> THEN 0
               ELSE DeltaBefore(addr_log[1].replacements, 1, Len(addr_log[1].text)))
            + (IF gen_log = << >> THEN 0
               ELSE DeltaBefore(gen_log[1].applied, 1, Len(gen_log[1].text)))

\* text with each span replaced by its placeholder and the rest kept, from
\* span n and offset from on
RECURSIVE Rewritten(_, _, _, _)
Rewritten(text, spans, n, from) ==
    IF n > Len(spans) THEN SliceFrom(text, from)
    ELSE Slice(text, from, spans[n].start) \o spans[n].placeholder
            \o Rewritten(text, spans, n + 1, spans[n].end)

\* C6: the output of a pass is its input with exactly one placeholder where
\* each applied span was and every other character kept, in order.
C6_OutsideUnchanged ==
    /\ \A n \in 1..Len(addr_log) :
        addr_log[n].masked =
            Rewritten(addr_log[n].text, addr_log[n].replacements, 1, 0)
    /\ \A n \in 1..Len(gen_log) :
        gen_log[n].masked = Rewritten(gen_log[n].text, gen_log[n].applied, 1, 0)

\* some requested entity type is outside the enumeration
HasInvalid ==
    \E i \in 1..Len(presidio_entities) :
        presidio_entities[i] \notin ListSet(PRESIDIO_ENTITIES)

\* C7: a request naming a type outside PRESIDIO_ENTITIES is rejected with 422
\* and the offending types before any detection work: no registry is built,
\* no detector is called, no text or mapping is returned.
C7_InvalidRejected ==
    (HasInvalid /\ pc # "VALIDATING") =>
        /\ pc = "REJECTED"
        /\ response.status = 422
        /\ ListSet(response.detail) = ListSet(presidio_entities) \ ListSet(PRESIDIO_ENTITIES)
        /\ response.masked_data = << >>
        /\ response.mappings = << >>
        /\ pm = << >>
        /\ pyap_calls = << >>
        /\ analyze_calls = << >>
        /\ addr_log = << >>
        /\ gen_log = << >>

\* a known type first, an unknown one second, a text and a seed to work on
C7_Witness ==
    /\ pc = "REJECTED"
    /\ Len(presidio_entities) = 2
    /\ presidio_entities[1] = LOCATION
    /\ presidio_entities[2] = BOGUS_TYPE
    /\ Len(sentence) > 0
    /\ Len(existing_mappings) > 0
    /\ analyzer
    /\ response.status = 422

\* what mask_sentence("", ...) is said to return
EmptyAnswer ==
    /\ pc \in { "DONE", "UNMASKED" }
    /\ response.status = 200
    /\ response.masked_data = << >>
    /\ response.mappings = << >>
    /\ pm = << >>
    /\ pyap_calls = << >>
    /\ analyze_calls = << >>

\* C8 (as claimed): the empty text returns ("", {}) for every list of
\* requested types and every seed, and no detector is called.
C8_EmptyAlways ==
    (Len(sentence) = 0 /\ pc # "VALIDATING") => EmptyAnswer

\* C8 (amended): the empty text returns ("", {}) for every seed and every
\* list of requested types that names no type outside the enumeration, and
\* no detector is called.
C8_EmptyWhenValid ==
    (Len(sentence) = 0 /\ ~HasInvalid /\ pc # "VALIDATING") => EmptyAnswer

\* the empty text with a seed and requested types
C8_Witness ==
    /\ Len(sentence) = 0
    /\ pc = "DONE"
    /\ Len(existing_mappings) > 0
    /\ Len(presidio_entities) > 0
    /\ analyzer
    /\ response.mappings = << >>

\* C9: when a detector call of a pass fails, the pass counts as having found
\* nothing: the request goes on and returns the text and the mapping of the
\* earlier passes.
C9_FailureAbsorbed ==
    (Len(pyap_calls) > Len(addr_log) \/ Len(analyze_calls) > Len(gen_log)) =>
        /\ pc \in { "GENERAL_PASS", "DONE", "UNMASKED" }
        /\ pc # "GENERAL_PASS" =>
            /\ response.status = 200
            /\ response.masked_data = current_text
            /\ response.mappings = Mappings(pm[1])

\* C10: without an analyzer and with types left to detect, the general pass
\* is skipped without error: the request returns the text of the address pass
\* and a mapping of exactly the seed entries and the placeholders the address
\* pass minted.
C10_NoAnalyzer ==
    ( /\ pc \in { "DONE", "FAILED" }
      /\ Len(pyap_calls) = Len(addr_log)
      /\ ~analyzer
      /\ Len(sentence) > 0
      /\ effective_entities # << >> ) =>
        LET m == response.mappings
            reps == IF addr_log = << >> THEN << >> ELSE addr_log[1].replacements
            addrs == IF addr_log = << >> THEN << >> ELSE addr_log[1].addrs
            minted == { reps[n].placeholder : n \in 1..Len(reps) }
                        \ DictKeys(existing_mappings)
        IN  /\ pc = "DONE"
            /\ response.status = 200
            /\ analyze_calls = << >>
            /\ gen_log = << >>
            /\ response.masked_data =
                    (IF addr_log = << >> THEN sentence ELSE addr_log[1].masked)
            /\ IsDict(m)
            /\ DictKeys(m) = DictKeys(existing_mappings) \cup minted
            /\ \A k \in DictKeys(existing_mappings) :
                    DictGet(m, k) = DictGet(existing_mappings, k)
            /\ \A k \in minted :
                    \E n \in 1..Len(reps), i \in 1..Len(addrs) :
                        /\ reps[n].placeholder = k
                        /\ addrs[i].match_start = reps[n].start
                        /\ addrs[i].match_end = reps[n].end
                        /\ addrs[i].full_address = DictGet(m, k)

\* no analyzer, an address found and masked, another type left, a seed
C10_Witness ==
    /\ pc = "DONE"
    /\ ~analyzer
    /\ Len(existing_mappings) > 0
    /\ Len(addr_log) = 1
    /\ Len(addr_log[1].replacements) = 1
    /\ effective_entities # << >>
    /\ response.status = 200
    /\ Len(response.mappings) = 2
    /\ response.masked_data # sentence

\* the seed without the entries whose key is no placeholder token
WellFormed(existing) ==
    SelectSeq(existing, LAMBDA kv : PlaceholderMatch(kv[1]).match)

\* the manager m after the calls cs[i..], and the tokens they return
RECURSIVE Replay(_, _, _, _)
Replay(m, cs, i, tokens) ==
    IF i > Len(cs) THEN [pm |-> m, tokens |-> tokens]
    ELSE LET r == placeholder_for(m, cs[i][1], cs[i][2])
         IN  Replay(r.pm, cs, i + 1, Append(tokens, r.placeholder))

\* C12: seeding from a mapping with malformed keys leaves the counters and
\* the reverse index as the same seed without those entries would, and every
\* later placeholder_for returns what it would return without them.
C12_MalformedIgnored ==
    pc = "REGISTRY" =>
        LET clean == Replay(PlaceholderManager(WellFormed(existing_mappings)),
                            calls, 1, << >>)
        IN  /\ pm[1].entity_counters = clean.pm.entity_counters
            /\ pm[1].pii_to_placeholder = clean.pm.pii_to_placeholder
            /\ \A i \in 1..Len(calls) : calls[i][3] = clean.tokens[i]

\* a malformed key beside a well-formed one, a seeded pair and a minted one
C12_Witness ==
    /\ pc = "REGISTRY"
    /\ Len(existing_mappings) = 2
    /\ Len(WellFormed(existing_mappings)) = 1
    /\ \E i, j \in 1..Len(calls) :
        /\ calls[i][3] \in DictKeys(existing_mappings)
        /\ calls[j][3] \notin DictKeys(existing_mappings)

\* C13: a seed entry whose key is no placeholder token is dropped: it is
\* neither in the registry snapshot nor in the mapping the request returns,
\* and every other seed entry is returned unchanged.
C13_MalformedDropped ==
    (pc = "DONE" /\ response.status = 200 /\ Len(sentence) > 0) =>
        \A k \in DictKeys(existing_mappings) :
            IF PlaceholderMatch(k).match
            THEN /\ k \in DictKeys(response.mappings)
                 /\ DictGet(response.mappings, k) = DictGet(existing_mappings, k)
            ELSE /\ k \notin DictKeys(response.mappings)
                 /\ k \notin DictKeys(Mappings(pm[1]))

\* the suffixes of the well-formed seed keys of entity
SeededSuffixes(entity) ==
    { PlaceholderMatch(k).number :
        k \in { x \in DictKeys(existing_mappings) :
                    PlaceholderMatch(x).match /\ PlaceholderMatch(x).entity = entity } }

\* the first call with the pair of calls[i]
FirstCall(i) ==
    Min({ j \in 1..i : calls[j][1] = calls[i][1] /\ calls[j][2] = calls[i][2] })

\* the rank of the value of calls[i] among the distinct values of its entity,
\* in the order they were first asked for
ValueRank(i) ==
    Cardinality({ calls[j][2] :
                    j \in { x \in 1..FirstCall(i) : calls[x][1] = calls[i][1] } })

\* C14: the counter of an entity type never decreases and is, from seeding
\* on, at least every suffix of the well-formed seed keys of that type; a
\* token minted for the type has a suffix above all of them; without a seed
\* the k-th distinct value of a type gets <TYPE_k>.
C14_CountersGrow ==
    /\ [][pc = "REGISTRY" =>
            \A e \in { URL, LOCATION } :
                Counter(pm'[1].entity_counters, e) >= Counter(pm[1].entity_counters, e)]_vars
    /\ [](pc = "REGISTRY" =>
            /\ \A e \in { URL, LOCATION } : \A n \in SeededSuffixes(e) :
                    Counter(pm[1].entity_counters, e) >= n
            /\ \A i \in 1..Len(calls) :
                    calls[i][3] \notin DictKeys(existing_mappings) =>
                        /\ PlaceholderMatch(calls[i][3]).match
                        /\ PlaceholderMatch(calls[i][3]).entity = calls[i][1]
                        /\ \A n \in SeededSuffixes(calls[i][1]) :
                                PlaceholderMatch(calls[i][3]).number > n
            /\ existing_mappings = << >> =>
                    \A i \in 1..Len(calls) :
                        calls[i][3] = FormatPlaceholder(calls[i][1], ValueRank(i)))

\* seeded <URL_2> first and <URL_1> second, then a URL minted as <URL_3>
C14_Witness ==
    /\ pc = "REGISTRY"
    /\ Len(existing_mappings) = 2
    /\ existing_mappings[1][1] = FormatPlaceholder(URL, 2)
    /\ existing_mappings[2][1] = FormatPlaceholder(URL, 1)
    /\ \E i \in 1..Len(calls) : calls[i][3] = FormatPlaceholder(URL, 3)

\* the tokens the passes of this request put into the text
UsedTokens ==
    UNION { { addr_log[n].replacements[i].placeholder :
                i \in 1..Len(addr_log[n].replacements) } : n \in 1..Len(addr_log) }
    \cup
    UNION { { gen_log[n].applied[i].placeholder :
                i \in 1..Len(gen_log[n].applied) } : n \in 1..Len(gen_log) }

\* C15: for a valid request on non-empty text the mapping returned holds
\* every well-formed seed entry with its seeded value and every token the
\* request minted, and the request adds no other key to the seed.
C15_FullMapping ==
    (pc = "DONE" /\ response.status = 200 /\ Len(sentence) > 0) =>
        LET m == response.mappings
        IN  /\ IsDict(m)
            /\ \A k \in DictKeys(existing_mappings) :
                PlaceholderMatch(k).match =>
                    /\ k \in DictKeys(m)
                    /\ DictGet(m, k) = DictGet(existing_mappings, k)
            /\ UsedTokens \subseteq DictKeys(m)
            /\ DictKeys(m) \ DictKeys(existing_mappings)
                    = UsedTokens \ DictKeys(existing_mappings)

\* a seeded token kept and a new one minted in one request
C15_Witness ==
    /\ pc = "DONE"
    /\ response.status = 200
    /\ Len(existing_mappings) = 1
    /\ PlaceholderMatch(existing_mappings[1][1]).match
    /\ Len(response.mappings) = 2
    /\ UsedTokens \ DictKeys(existing_mappings) # {}

\* the keys of mapping that occur in text at offset i
KeysAt(text, mapping, i) ==
    { k \in DictKeys(mapping) : Len(k) > 0 /\ OccursAt(text, k, i) }

\* text read left to right from offset i, every occurrence of a key (the
\* longest where several start together) giving its mapped value and every
\* other character itself
RECURSIVE Restored(_, _, _)
Restored(text, mapping, i) ==
    IF i >= Len(text) THEN << >>
    ELSE IF KeysAt(text, mapping, i) = {}
         THEN << text[i + 1] >> \o Restored(text, mapping, i + 1)
         ELSE LET k == CHOOSE x \in KeysAt(text, mapping, i) :
                            \A y \in KeysAt(text, mapping, i) : Len(y) <= Len(x)
              IN  DictGet(mapping, k) \o Restored(text, mapping, i + Len(k))

\* C16: restore replaces every occurrence in the text of every key of the
\* mapping with its mapped value and leaves every other part verbatim,
\* tokens without an entry included; an empty text, an empty mapping or a
\* text without any key comes back unchanged.
C16_Restore ==
    pc = "UNMASK_DONE" =>
        /\ unmasked[1] = Restored(sentence, existing_mappings, 0)
        /\ (\/ Len(sentence) = 0
            \/ Len(existing_mappings) = 0
            \/ \A k \in DictKeys(existing_mappings) : ~Contains(sentence, k))
                => unmasked[1] = sentence

\* one key of the mapping is a literal substring of another
SubstringKeys(mapping) ==
    \E k1, k2 \in DictKeys(mapping) : k1 # k2 /\ Len(k1) > 0 /\ Contains(k2, k1)

\* C17: restore replaces by key length, descending, which gives the correct
\* result when one key is a substring of another: every occurrence of the
\* longer key in the text becomes the longer key's value.
C17_LongestFirst ==
    (pc = "UNMASK_DONE" /\ SubstringKeys(existing_mappings)) =>
        /\ \A i, j \in 1..Len(existing_mappings) :
            i < j => Len(KeysByLength(existing_mappings)[i])
                        >= Len(KeysByLength(existing_mappings)[j])
        /\ unmasked[1] = Restored(sentence, existing_mappings, 0)

\* LOCATION is among the types the request asks for (all of them by default)
LocationRequested ==
    Len(presidio_entities) = 0 \/ InList(LOCATION, presidio_entities)

\* C18: when LOCATION is requested and the address detector finds a match,
\* the general detector is called with a list without LOCATION, whatever
\* list the caller sent; when the address detector finds nothing, LOCATION
\* is in the list the general detector is called with.
C18_PriorityPass ==
    \A n \in 1..Len(analyze_calls) :
        (LocationRequested /\ Len(addr_log) = 1) =>
            IF Len(addr_log[1].addrs) > 0
            THEN ~InList(LOCATION, analyze_calls[n].entities)
            ELSE InList(LOCATION, analyze_calls[n].entities)

\* C11: /mask answers 503 and does not call mask_sentence in any application
\* state where service_initialized_successfully is False or analyzer_engine
\* is None; it reaches mask_sentence only when the flag is True and an
\* analyzer is there.
C11_NotReady503 ==
    \A w \in Workers : \A n \in 1..Len(worker[w].requests) :
        LET r == worker[w].requests[n]
        IN  /\ (~r.successful \/ ~r.engine) =>
                    (r.status = 503 /\ ~r.mask_sentence_called)
            /\ r.mask_sentence_called <=> (r.successful /\ r.engine)

\* a request refused for the flag, one refused for the analyzer with the
\* flag set, and one that reaches mask_sentence
C11_Witness ==
    /\ \E w \in Workers : \E n \in 1..Len(worker[w].requests) :
        ~worker[w].requests[n].successful /\ worker[w].requests[n].status = 503
    /\ \E w \in Workers : \E n \in 1..Len(worker[w].requests) :
        /\ worker[w].requests[n].successful
        /\ ~worker[w].requests[n].engine
        /\ worker[w].requests[n].status = 503
    /\ \E w \in Workers : \E n \in 1..Len(worker[w].requests) :
        worker[w].requests[n].mask_sentence_called

\* C19: model loading is serialized across the workers: at most one worker
\* is between acquiring and releasing the named semaphore at any time.
C19_OneLoader ==
    Cardinality({ w \in Workers : worker[w].holds }) <= 1

\* C20: once startup has completed app.state holds the analyzer and the flag
\* that initialization returned, (None, False) when init_service or the
\* analyzer initialization failed, so the flag is True only with an
\* analyzer; after shutdown both are None and False.
C20_Lifecycle ==
    \A w \in Workers :
        /\ worker[w].pc = "SERVING" =>
            /\ worker[w].analyzer_engine = worker[w].result.analyzer
            /\ worker[w].service_initialized_successfully = worker[w].result.successful
            /\ worker[w].service_initialized_successfully => worker[w].analyzer_engine
            /\ ~worker[w].result.analyzer =>
                    (~worker[w].analyzer_engine
                        /\ ~worker[w].service_initialized_successfully)
        /\ worker[w].pc = "STOPPED" =>
            (~worker[w].analyzer_engine /\ ~worker[w].service_initialized_successfully)

\* one worker serving with its analyzer, one serving after a failed start,
\* one stopped after a successful start
C20_Witness ==
    \E a, b, c \in Workers :
        /\ worker[a].pc = "SERVING" /\ worker[a].service_initialized_successfully
        /\ worker[b].pc = "SERVING" /\ ~worker[b].service_initialized_successfully
        /\ worker[c].pc = "STOPPED" /\ worker[c].result.successful

\* result j of a general pass comes before result i in the tie-break order:
\* earlier start, then longer, then higher score, then earlier in the list
Precedes(results, j, i) ==
    LET a == results[j]
        b == results[i]
    IN  \/ a.start < b.start
        \/ a.start = b.start /\ (a.end - a.start) > (b.end - b.start)
        \/ a.start = b.start /\ a.end = b.end /\ a.score > b.score
        \/ a.start = b.start /\ a.end = b.end /\ a.score = b.score /\ j < i

\* the results of the pass g that neither overlap an excluded region nor
\* read as a key of the mapping
Candidates(g) ==
    { i \in 1..Len(g.results) :
        /\ ~\E n \in 1..Len(g.exclude_spans) :
                Overlap(g.results[i].start, g.results[i].end,
                        g.exclude_spans[n][1], g.exclude_spans[n][2])
        /\ Slice(g.text, g.results[i].start, g.results[i].end)
                \notin DictKeys(Mappings(g.pm)) }

\* acc is the accepted set of the policy: a candidate is in it iff it starts
\* at or after the end of every accepted candidate that precedes it
Accepted(g, acc) ==
    \A i \in Candidates(g) :
        i \in acc <=>
            \A j \in acc : Precedes(g.results, j, i) =>
                                g.results[j].end <= g.results[i].start

\* C21: the spans the general pass replaces are the candidates the tie-break
\* policy accepts (at one offset the longest, at one length the higher
\* score, none that starts inside an accepted span), in the order of their
\* start offsets and with their entity types.
C21_TieBreak ==
    \A n \in 1..Len(gen_log) :
        LET g == gen_log[n]
        IN  \E acc \in SUBSET Candidates(g) :
                /\ Accepted(g, acc)
                /\ Len(g.applied) = Cardinality(acc)
                /\ \A i \in acc : \E k \in 1..Len(g.applied) :
                        /\ g.applied[k].start = g.results[i].start
                        /\ g.applied[k].end = g.results[i].end
                        /\ g.applied[k].entity_type = g.results[i].entity_type
                /\ \A k, l \in 1..Len(g.applied) :
                        k < l => g.applied[k].end <= g.applied[l].start

\* two candidates at one offset, the longer given second and accepted
C21_Witness ==
    \E n \in 1..Len(gen_log) :
        LET g == gen_log[n]
        IN  /\ Len(g.results) = 2
            /\ Candidates(g) = { 1, 2 }
            /\ g.results[1].start = g.results[2].start
            /\ g.results[1].end < g.results[2].end
            /\ Len(g.applied) = 1
            /\ g.applied[1].end = g.results[2].end

\* C22: the spans AddressMasker.mask returns are the positions of the
\* placeholders it inserted (masked[s:e] is the placeholder), the general
\* pass replaces no candidate overlapping one of them, and so every
\* placeholder of the address pass is intact in the text the request returns.
C22_AddressTokensKept ==
    /\ \A n \in 1..Len(addr_log) :
        LET a == addr_log[n]
        IN  /\ Len(a.spans) = Len(a.replacements)
            /\ \A i \in 1..Len(a.spans) :
                Slice(a.masked, a.spans[i][1], a.spans[i][2])
                    = a.replacements[i].placeholder
    /\ \A n \in 1..Len(gen_log) : \A k \in 1..Len(gen_log[n].applied) :
        ~OverlapsAny(gen_log[n].applied[k].start, gen_log[n].applied[k].end,
                     gen_log[n].exclude_spans)
    /\ (pc = "DONE" /\ response.status = 200 /\ Len(addr_log) = 1) =>
        \A i \in 1..Len(addr_log[1].spans) :
            LET at == addr_log[1].spans[i][1]
                applied == IF gen_log = << >> THEN << >> ELSE gen_log[1].applied
            IN  OccursAt(response.masked_data,
                         addr_log[1].replacements[i].placeholder,
                         at + DeltaBefore(applied, 1, at))

\* C23: every placeholder minted in a request stands for the literal matched
\* substring: its value in the mapping is the text of the pass between the
\* start and the end of the span it replaced.
C23_LiteralValue ==
    pm # << >> =>
        /\ \A n \in 1..Len(addr_log) : \A i \in 1..Len(addr_log[n].replacements) :
            LET rep == addr_log[n].replacements[i]
            IN  rep.placeholder \notin DictKeys(Mappings(addr_log[n].pm)) =>
                    DictGet(Mappings(pm[1]), rep.placeholder)
                        = Slice(addr_log[n].text, rep.start, rep.end)
        /\ \A n \in 1..Len(gen_log) : \A k \in 1..Len(gen_log[n].applied) :
            LET rep == gen_log[n].applied[k]
            IN  rep.placeholder \notin DictKeys(Mappings(gen_log[n].pm)) =>
                    DictGet(Mappings(pm[1]), rep.placeholder)
                        = Slice(gen_log[n].text, rep.start, rep.end)

\* C24: every result of GoogleDlpRecognizer.analyze carries an entity type
\* of the list it was called with, for every list of enumerated types and
\* every finding of an info type that was asked for.
C24_RequestedTypesOnly ==
    pc \in { "DLP_DONE", "DLP_FAILED" } =>
        \A n \in 1..Len(analyze_calls) : \A i \in 1..Len(analyze_calls[n].results) :
            InList(analyze_calls[n].results[i].entity_type, analyze_calls[n].entities)

\* the detectors are called in sequence: pyap at most once and on the
\* original text, the analyzer at most once, after the address pass returned,
\* on its output text and with its spans as exclusions
Sequential ==
    /\ Len(pyap_calls) <= 1
    /\ \A i \in 1..Len(pyap_calls) : pyap_calls[i] = sentence
    /\ Len(analyze_calls) <= 1
    /\ Len(analyze_calls) > 0 =>
        /\ Len(addr_log) = Len(pyap_calls)
        /\ Len(gen_log) > 0 => gen_log[1].text = analyze_calls[1].text
        /\ IF Len(addr_log) > 0
           THEN /\ analyze_calls[1].text = addr_log[1].masked
                /\ Len(gen_log) > 0 => gen_log[1].exclude_spans = addr_log[1].spans
           ELSE /\ analyze_calls[1].text = sentence
                /\ Len(gen_log) > 0 => gen_log[1].exclude_spans = << >>

\* C25: a mask request ends in one outcome, the rejection (422) or the
\* returned text and mapping (200), and its detectors are called in
\* sequence: pyap at most once on the original text, then the analyzer at
\* most once on the address pass's output with its spans excluded.
C25_OneOutcomeSequential ==
    /\ pc \in { "VALIDATING", "ADDRESS_PASS", "GENERAL_PASS",
                "REJECTED", "DONE", "UNMASKED" }
    /\ pc \in { "VALIDATING", "ADDRESS_PASS", "GENERAL_PASS" } <=> response.status = 0
    /\ pc = "REJECTED" <=> response.status = 422
    /\ pc \in { "DONE", "UNMASKED" } <=> response.status = 200
    /\ Sequential

\* the response of mask_sentence(args) run alone, the detectors answering
\* addrs and results, and whether the detectors were asked as r records
AloneRun(r) ==
    LET a == r.args
        invalid == InvalidEntities(a.presidio_entities)
    IN  IF Len(a.presidio_entities) > 0 /\ invalid # << >>
        THEN [response |-> [NoResponse EXCEPT !.status = 422, !.detail = invalid],
              as_asked |-> r.addrs = << >> /\ r.asked = << >>]
        ELSE IF Len(a.sentence) = 0
        THEN [response |-> [NoResponse EXCEPT !.status = 200],
              as_asked |-> r.addrs = << >> /\ r.asked = << >>]
        ELSE
        LET pm0 == PlaceholderManager(a.existing_mappings)
            eff0 == IF Len(a.presidio_entities) > 0 THEN a.presidio_entities
                    ELSE PRESIDIO_ENTITIES
            loc == InList(LOCATION, eff0)
            ad == AddressMaskerMask(pm0, a.sentence,
                                    IF r.addrs = << >> THEN << >> ELSE r.addrs[1])
            pm1 == IF loc THEN ad.pm ELSE pm0
            text1 == IF loc THEN ad.masked ELSE a.sentence
            spans1 == IF loc THEN ad.spans ELSE << >>
            eff1 == IF loc /\ ad.spans # << >> THEN Remove(eff0, LOCATION) ELSE eff0
            g == PresidioMaskerMask(pm1, text1, eff1, spans1,
                                    IF r.results = << >> THEN << >> ELSE r.results[1])
        IN  IF eff1 = << >>
            THEN [response |-> [NoResponse EXCEPT !.status = 200,
                                    !.masked_data = text1,
                                    !.mappings = Mappings(pm1)],
                  as_asked |-> (loc <=> r.addrs # << >>) /\ r.asked = << >>]
            ELSE [response |-> [NoResponse EXCEPT !.status = 200,
                                    !.masked_data = g.masked,
                                    !.mappings = Mappings(g.pm)],
                  as_asked |-> /\ loc <=> r.addrs # << >>
                               /\ r.asked = << [text |-> text1, entities |-> eff1] >>]

\* C26: with two mask requests interleaved step by step, each request that
\* ended has the response it has when run alone with the same detector
\* answers, its detectors were asked what they are asked when it runs alone,
\* and PRESIDIO_ENTITIES, the caller's list and the caller's seed are what
\* they were when the request began.
C26_Isolation ==
    /\ shared_entities = PRESIDIO_ENTITIES
    /\ \A q \in DOMAIN mask_requests :
        LET r == mask_requests[q]
        IN  /\ r.presidio_entities = r.args.presidio_entities
            /\ r.existing_mappings = r.args.existing_mappings
            /\ r.pc \in { "DONE", "REJECTED" } =>
                /\ r.response = AloneRun(r).response
                /\ AloneRun(r).as_asked

\* both requests omitted the list, both had an address masked (LOCATION
\* was removed from the effective list of each) and a general result applied
C26_Witness ==
    /\ DOMAIN mask_requests = Requests
    /\ \A q \in DOMAIN mask_requests :
        LET r == mask_requests[q]
        IN  /\ r.pc = "DONE"
            /\ r.args.presidio_entities = << >>
            /\ r.address_spans # << >>
            /\ r.results # << >> /\ r.results[1] # << >>
            /\ Len(r.response.mappings) > Len(r.args.existing_mappings) + 1

C28_EntriesKept ==
    [][pc = "REGISTRY" =>
        LET before == Mappings(pm[1])
            after == Mappings(pm'[1])
            call == calls'[Len(calls')]
        IN  /\ \A k \in DictKeys(before) :
                /\ k \in DictKeys(after)
                /\ DictGet(after, k) = DictGet(before, k)
            /\ (Len(calls') = Len(calls) + 1
                    /\ <<call[1], call[2]>> \notin DOMAIN pm[1].pii_to_placeholder) =>
                /\ call[3] \notin DictKeys(before)
                /\ DictKeys(after) = DictKeys(before) \cup { call[3] }
                /\ DictGet(after, call[3]) = call[2]]_vars

\* a registry seeded with <URL_2> and <URL_1> that minted a further URL
\* token, both seed entries in place
C28_Witness ==
    /\ pc = "REGISTRY"
    /\ DictKeys(existing_mappings) = { FormatPlaceholder(URL, 1), FormatPlaceholder(URL, 2) }
    /\ \E i \in 1..Len(calls) :
        /\ calls[i][1] = URL
        /\ calls[i][3] \notin DictKeys(existing_mappings)
    /\ Len(Mappings(pm[1])) > 2

\* C29: within one registry, seeded or not, two placeholder_for calls with
\* different (entity_type, value) pairs never return the same token, the
\* reverse index holds no token twice, and the token a call returned is
\* mapped to the value of that call.
C29_Injective ==
    pc = "REGISTRY" =>
        /\ \A i, j \in 1..Len(calls) :
            calls[i][3] = calls[j][3] =>
                (calls[i][1] = calls[j][1] /\ calls[i][2] = calls[j][2])
        /\ \A k1, k2 \in DOMAIN pm[1].pii_to_placeholder :
            pm[1].pii_to_placeholder[k1] = pm[1].pii_to_placeholder[k2] => k1 = k2
        /\ IsDict(Mappings(pm[1]))
        /\ \A i \in 1..Len(calls) :
            /\ calls[i][3] \in DictKeys(Mappings(pm[1]))
            /\ DictGet(Mappings(pm[1]), calls[i][3]) = calls[i][2]

\* a seeded registry asked for three different pairs, two of one type with
\* one of them seeded, and three different tokens returned
C29_Witness ==
    /\ pc = "REGISTRY"
    /\ existing_mappings # << >>
    /\ Len(calls) = 3
    /\ Cardinality({ <<calls[i][1], calls[i][2]>> : i \in 1..3 }) = 3
    /\ Cardinality({ calls[i][3] : i \in 1..3 }) = 3
    /\ \E i, j \in 1..3 :
        /\ calls[i][1] = calls[j][1]
        /\ calls[i][3] \in DictKeys(existing_mappings)
        /\ calls[j][3] \notin DictKeys(existing_mappings)

\* C30: a worker releases the semaphore once if and only if it acquired it,
\* on every exit path of initialize_analyzer_engine: the value of the
\* semaphore and the workers between acquire and release add up to its
\* initial value 1, so the value never exceeds 1; and every worker that
\* waits to acquire the semaphore eventually acquires it.
C30_ReleaseIffAcquired ==
    /\ [](sem_value >= 0 =>
            /\ sem_value <= 1
            /\ sem_value + Cardinality({ w \in Workers : worker[w].holds }) = 1)
    /\ \A w \in Workers : (worker[w].pc = "WAITING") ~> worker[w].holds

====
